---- MODULE Spec2Model ----
(***************************************************************************)
(* A model of the binning/aggregation core of starnext-import (src/lib.rs): *)
(* VehicleClass::from_num, VehicleClassCount::insert,                      *)
(* SpeedRangeCount::insert, time_bin and create_speed_and_class_count, and *)
(* of the data checks of src/check_data.rs (check).                        *)
(*                                                                         *)
(* Each component has its own specification over the shared variables; the *)
(* variables of the other components stay at their idle values.            *)
(***************************************************************************)
EXTENDS Integers, Sequences, FiniteSets, TLC

VARIABLES
    \* VehicleClass::from_num
    num,                 \* the u8 argument
    from_num_res,        \* the Result returned, or NoResult before the call
    \* VehicleClassCount
    class_count,         \* the VehicleClassCount (self)
    class_before,        \* self as it was before the last insert
    class_arg,           \* the class of the last insert, "none" before the first
    class_calls,         \* number of inserts so far
    \* SpeedRangeCount
    speed_count,         \* the SpeedRangeCount (self)
    speed_before,        \* self as it was before the last insert
    speed_arg,           \* the speed of the last insert, NoSpeed before the first
    speed_res,           \* "Ok" or "InvalidSpeed" for the last insert, "none" before
    speed_calls,         \* number of inserts so far
    speed_oks,           \* number of inserts so far that returned Ok
    test_i,              \* statements of tests::speed_binning_is_correct executed
    \* time_bin
    time_a,              \* the Time passed to the current call
    bin_a,               \* its Result, NoBin before the call returns
    time_b,              \* the Time passed to the call before it, NoTime if none
    bin_b,               \* the Result of the call before it
    \* create_speed_and_class_count
    metadata,            \* the CountMetadata argument
    agg_pc,              \* "loop", "returned" or "panicked"
    fifteen_min_speed_range_count,    \* HashMap<BinnedCountKey, SpeedRangeCount>
    fifteen_min_vehicle_class_count,  \* HashMap<BinnedCountKey, VehicleClassCount>
    count,               \* the CountedVehicle of the last iteration, NoCount before
    outcome,             \* how the last iteration ended
    speed_map_before,    \* the speed map before the last iteration
    class_map_before,    \* the class map before the last iteration
    n_counts,            \* number of iterations so far
    n_inserted,          \* number of iterations that reached both inserts
    \* check_data::check
    chk_pc,              \* the statement check is at
    chk_result,          \* "none" while running, then "Ok" or the error returned
    count_type,          \* the type read from tc_header, "" before
    counts,              \* Vec<ClassCountCheck> of the class-mix rule
    count_by_dir,        \* HashMap<String, u32> of the directional-balance rule
    rows_by_dir,         \* per direction, the totalcount of the rows fetched so far
    hourly,              \* the last tc_volcount row of the consecutive-zero rule
    inspected,           \* the slots of that row in the order the loop visited them
    consecutive_zeros,   \* the counter as the last row left it
    carried,             \* the counter as the row before the last left it
    total,               \* the last tc_bikecount total fetched
    emitted,             \* the warnings emitted by the last step
    n_rows,              \* rows fetched so far by the current query
    lookup,              \* how the type lookup ended: "Some", "None", "Err"; "" before
    queried,             \* the rules whose query has been issued
    \* CountMetadata::from_path
    path,                \* the Path argument: its file stem, if it has one
    from_path_res,       \* the Result returned, NoMetadata before the call
    \* create_speed_and_class_count, called again with `counts` reordered
    pass_metadata,       \* the CountMetadata argument of every call
    pass_counts,         \* the `counts` argument of the last call, in its order
    first_pass,          \* what the first call returned, NoPass before it
    this_pass,           \* what the last call returned
    reordered,           \* TRUE once a call was made with `counts` in another order
    \* db::insert_empty_metadata
    number,              \* the u32 argument
    ins_pc,              \* "idle", "call", "loop" or "returned"
    recordnums,          \* the Vec<u32> being built
    assigned,            \* the recordnums tc_header assigned to the rows inserted, in order
    first_recordnum,     \* the recordnum the next row of tc_header gets at the call
    ascending,           \* whether tc_header assigns growing recordnums
    commit_calls,        \* number of conn.commit() calls
    committed,           \* number of them that succeeded
    failed,              \* the collaborator call that failed, "none" if none did
    ins_result           \* the Result returned, NoRecords before

from_num_vars == <<num, from_num_res>>
class_vars == <<class_count, class_before, class_arg, class_calls>>
speed_vars == <<speed_count, speed_before, speed_arg, speed_res, speed_calls,
                speed_oks, test_i>>
time_vars == <<time_a, bin_a, time_b, bin_b>>
agg_vars == <<metadata, agg_pc, fifteen_min_speed_range_count,
              fifteen_min_vehicle_class_count, count, outcome, speed_map_before,
              class_map_before, n_counts, n_inserted>>
chk_vars == <<chk_pc, chk_result, count_type, counts, count_by_dir, rows_by_dir,
              hourly, inspected, consecutive_zeros, carried, total, emitted, n_rows,
              lookup, queried>>
path_vars == <<path, from_path_res>>
ins_vars == <<number, ins_pc, recordnums, assigned, first_recordnum, ascending,
              commit_calls, committed, failed, ins_result>>
pass_vars == <<pass_metadata, pass_counts, first_pass, this_pass, reordered>>
vars == <<from_num_vars, class_vars, speed_vars, time_vars, agg_vars,
    chk_vars, path_vars, pass_vars, ins_vars>>

\* What each component leaves alone.
not_from_num_vars == <<class_vars, speed_vars, time_vars, agg_vars, chk_vars,
    path_vars, pass_vars, ins_vars>>
not_class_vars == <<from_num_vars, speed_vars, time_vars, agg_vars, chk_vars,
    path_vars, pass_vars, ins_vars>>
not_speed_vars == <<from_num_vars, class_vars, time_vars, agg_vars, chk_vars,
    path_vars, pass_vars, ins_vars>>
not_time_vars == <<from_num_vars, class_vars, speed_vars, agg_vars, chk_vars,
    path_vars, pass_vars, ins_vars>>
not_agg_vars == <<from_num_vars, class_vars, speed_vars, time_vars, chk_vars,
    path_vars, pass_vars, ins_vars>>
not_path_vars == <<from_num_vars, class_vars, speed_vars, time_vars, agg_vars,
    chk_vars, pass_vars, ins_vars>>
not_pass_vars == <<from_num_vars, class_vars, speed_vars, time_vars, agg_vars,
    chk_vars, path_vars, ins_vars>>
not_ins_vars == <<from_num_vars, class_vars, speed_vars, time_vars, agg_vars,
                  chk_vars, path_vars, pass_vars>>
not_chk_vars == <<from_num_vars, class_vars, speed_vars, time_vars, agg_vars,
    path_vars, pass_vars, ins_vars>>

----------------------------------------------------------------------------
(* Bounds of the model *)

\* Number of VehicleClassCount::insert calls explored.
MaxClassInserts == 3

\* Number of SpeedRangeCount::insert calls explored outside the unit test.
MaxSpeedInserts == 3

\* Length of the `counts` vector passed to create_speed_and_class_count.
MaxCounts == 3

\* Rows a query of check returns.
MaxRows == 3

\* Length of the `counts` vector whose orders are compared.
MaxPassCounts == 3

\* How far above RECORD_CREATION_LIMIT the requested number goes.
MaxOverLimit == 2

\* Hourly columns of a tc_volcount row that vary over NULL, 0 and 5.
MaxVariedSlots == 4

----------------------------------------------------------------------------
(* Data model *)

\* enum Direction
Directions == {"North", "East", "South", "West"}

\* enum VehicleClass, in declaration order.
VehicleClasses ==
    << "Motorcycles", "PassengerCars", "OtherFourTireSingleUnitVehicles", "Buses",
       "TwoAxleSixTireSingleUnitTrucks", "ThreeAxleSingleUnitTrucks",
       "FourOrMoreAxleSingleUnitTrucks", "FourOrFewerAxleSingleTrailerTrucks",
       "FiveAxleSingleTrailerTrucks", "SixOrMoreAxleSingleTrailerTrucks",
       "FiveOrFewerAxleMultiTrailerTrucks", "SixAxleMultiTrailerTrucks",
       "SevenOrMoreAxleMultiTrailerTrucks", "UnclassifiedVehicle" >>

VehicleClassSet == {VehicleClasses[i] : i \in 1..Len(VehicleClasses)}

\* Largest value of the u8 argument of from_num.
U8Max == 255

----------------------------------------------------------------------------
(* VehicleClass::from_num *)

NoResult == [ok |-> FALSE, class |-> "none", err |-> "none", code |-> 0]

Ok_Class(c) == [ok |-> TRUE, class |-> c, err |-> "none", code |-> 0]

Err_BadVehicleClass(n) == [ok |-> FALSE, class |-> "none", err |-> "BadVehicleClass", code |-> n]

\* from_num with the `0 | 14` arm lost: both codes fall to the error arm.
from_num_no_unclassified(n) ==
    IF n \in 1..13 THEN Ok_Class(VehicleClasses[n]) ELSE Err_BadVehicleClass(n)

from_num(n) ==
    CASE n = 1 -> Ok_Class("Motorcycles")
      [] n = 2 -> Ok_Class("PassengerCars")
      [] n = 3 -> Ok_Class("OtherFourTireSingleUnitVehicles")
      [] n = 4 -> Ok_Class("Buses")
      [] n = 5 -> Ok_Class("TwoAxleSixTireSingleUnitTrucks")
      [] n = 6 -> Ok_Class("ThreeAxleSingleUnitTrucks")
      [] n = 7 -> Ok_Class("FourOrMoreAxleSingleUnitTrucks")
      [] n = 8 -> Ok_Class("FourOrFewerAxleSingleTrailerTrucks")
      [] n = 9 -> Ok_Class("FiveAxleSingleTrailerTrucks")
      [] n = 10 -> Ok_Class("SixOrMoreAxleSingleTrailerTrucks")
      [] n = 11 -> Ok_Class("FiveOrFewerAxleMultiTrailerTrucks")
      [] n = 12 -> Ok_Class("SixAxleMultiTrailerTrucks")
      [] n = 13 -> Ok_Class("SevenOrMoreAxleMultiTrailerTrucks")
      [] n = 0 \/ n = 14 -> Ok_Class("UnclassifiedVehicle")
      [] OTHER -> Err_BadVehicleClass(n)

FromNumIdle == num = 0 /\ from_num_res = NoResult

FromNumInit == num \in 0..U8Max /\ from_num_res = NoResult

\* One call of VehicleClass::from_num(num).
FromNumCall ==
    /\ from_num_res = NoResult
    /\ from_num_res' = from_num(num)
    /\ UNCHANGED num
    /\ UNCHANGED not_from_num_vars

\* The caller takes the result and passes another code.
FromNumAgain ==
    /\ from_num_res # NoResult
    /\ num' \in 0..U8Max
    /\ from_num_res' = NoResult
    /\ UNCHANGED not_from_num_vars

----------------------------------------------------------------------------
(* VehicleClassCount *)

VehicleClassCount_new(dvrpc_num, direction) ==
    [dvrpc_num |-> dvrpc_num, direction |-> direction,
     c1 |-> 0, c2 |-> 0, c3 |-> 0, c4 |-> 0, c5 |-> 0, c6 |-> 0, c7 |-> 0,
     c8 |-> 0, c9 |-> 0, c10 |-> 0, c11 |-> 0, c12 |-> 0, c13 |-> 0,
     c15 |-> 0, total |-> 0]

\* The 13 arms of insert's match for the named classes.
NamedClassArm(self, class) ==
    CASE class = "Motorcycles" -> [self EXCEPT !.c1 = @ + 1]
      [] class = "PassengerCars" -> [self EXCEPT !.c2 = @ + 1]
      [] class = "OtherFourTireSingleUnitVehicles" -> [self EXCEPT !.c3 = @ + 1]
      [] class = "Buses" -> [self EXCEPT !.c4 = @ + 1]
      [] class = "TwoAxleSixTireSingleUnitTrucks" -> [self EXCEPT !.c5 = @ + 1]
      [] class = "ThreeAxleSingleUnitTrucks" -> [self EXCEPT !.c6 = @ + 1]
      [] class = "FourOrMoreAxleSingleUnitTrucks" -> [self EXCEPT !.c7 = @ + 1]
      [] class = "FourOrFewerAxleSingleTrailerTrucks" -> [self EXCEPT !.c8 = @ + 1]
      [] class = "FiveAxleSingleTrailerTrucks" -> [self EXCEPT !.c9 = @ + 1]
      [] class = "SixOrMoreAxleSingleTrailerTrucks" -> [self EXCEPT !.c10 = @ + 1]
      [] class = "FiveOrFewerAxleMultiTrailerTrucks" -> [self EXCEPT !.c11 = @ + 1]
      [] class = "SixAxleMultiTrailerTrucks" -> [self EXCEPT !.c12 = @ + 1]
      [] class = "SevenOrMoreAxleMultiTrailerTrucks" -> [self EXCEPT !.c13 = @ + 1]

\* insert with the Unclassified arm counting only c15 (the c2 increment lost).
VehicleClassCount_insert_c15_only(self, class) ==
    LET s == IF class = "UnclassifiedVehicle"
             THEN [self EXCEPT !.c15 = @ + 1]
             ELSE NamedClassArm(self, class)
    IN  [s EXCEPT !.total = @ + 1]

\* insert with the Unclassified arm returning before `self.total += 1`.
VehicleClassCount_insert_no_total(self, class) ==
    IF class = "UnclassifiedVehicle"
    THEN [self EXCEPT !.c2 = @ + 1, !.c15 = @ + 1]
    ELSE [NamedClassArm(self, class) EXCEPT !.total = @ + 1]

\* The counters are i32 and `+= 1` overflows only after 2^31 inserts, far
\* beyond the inserts explored here; the additions are modelled unbounded.
VehicleClassCount_insert(self, class) ==
    LET s == IF class = "UnclassifiedVehicle"
             THEN \* Unclassified vehicles get included with class 2 and also
                  \* counted on their own.
                  [self EXCEPT !.c2 = @ + 1, !.c15 = @ + 1]
             ELSE NamedClassArm(self, class)
    IN  [s EXCEPT !.total = @ + 1]

ClassIdle ==
    /\ class_count = VehicleClassCount_new(0, "North")
    /\ class_before = VehicleClassCount_new(0, "North")
    /\ class_arg = "none"
    /\ class_calls = 0

ClassInit ==
    /\ \E d \in Directions : class_count = VehicleClassCount_new(123, d)
    /\ class_before = class_count
    /\ class_arg = "none"
    /\ class_calls = 0

\* One call of VehicleClassCount::insert(class).
ClassInsert ==
    /\ class_calls < MaxClassInserts
    /\ \E class \in VehicleClassSet :
          /\ class_count' = VehicleClassCount_insert(class_count, class)
          /\ class_arg' = class
    /\ class_before' = class_count
    /\ class_calls' = class_calls + 1
    /\ UNCHANGED not_class_vars

----------------------------------------------------------------------------
(* f32 speeds *)

\* An f32 is modelled by its sign bit, its kind and, when finite, its
\* magnitude in hundredths of a mph.  Every speed and every range bound used
\* here is a decimal with at most two fractional digits below 1000; rounding
\* to f32 is monotone and maps two such decimals that differ to two f32 values
\* that differ, so f32 comparison of them is comparison of the hundredths.  A
\* literal such as 15.1 and the parsed text "15.1" are the same f32.
Finite(sign, hundredths) == [sign |-> sign, kind |-> "finite", mag |-> hundredths]

Infinity(sign) == [sign |-> sign, kind |-> "infinite", mag |-> 0]

NaN(sign) == [sign |-> sign, kind |-> "nan", mag |-> 0]

NoSpeed == [sign |-> 0, kind |-> "none", mag |-> 0]

\* The value of a finite f32 in hundredths (-0.0 has value 0).
Value(x) == IF x.sign = 1 THEN 0 - x.mag ELSE x.mag

\* bound <= x, for a finite bound given in hundredths.
Le_bound_x(bound, x) ==
    CASE x.kind = "finite" -> bound <= Value(x)
      [] x.kind = "infinite" -> x.sign = 0
      [] OTHER -> FALSE

\* x <= bound, for a finite bound given in hundredths.
Le_x_bound(x, bound) ==
    CASE x.kind = "finite" -> Value(x) <= bound
      [] x.kind = "infinite" -> x.sign = 1
      [] OTHER -> FALSE

\* `speed < 0.0` in place of is_sign_negative: -0.0 and NaN pass the check.
is_sign_negative_lt_zero(x) ==
    CASE x.kind = "finite" -> Value(x) < 0
      [] x.kind = "infinite" -> x.sign = 1
      [] OTHER -> FALSE

\* f32::is_sign_negative: the sign bit, also of -0.0, -inf and a negative NaN.
is_sign_negative(x) == x.sign = 1

\* (lo..hi).contains(x): the end of the range excluded.
Range_contains(lo, hi, x) == Le_bound_x(lo, x) /\ ~Le_bound_x(hi, x) /\ x.kind # "nan"

\* (lo..=hi).contains(x)
RangeInclusive_contains(lo, hi, x) == Le_bound_x(lo, x) /\ Le_x_bound(x, hi)

\* (lo..).contains(x)
RangeFrom_contains(lo, x) == Le_bound_x(lo, x)

----------------------------------------------------------------------------
(* SpeedRangeCount *)

SpeedRangeCount_new(dvrpc_num, direction) ==
    [dvrpc_num |-> dvrpc_num, direction |-> direction,
     s1 |-> 0, s2 |-> 0, s3 |-> 0, s4 |-> 0, s5 |-> 0, s6 |-> 0, s7 |-> 0,
     s8 |-> 0, s9 |-> 0, s10 |-> 0, s11 |-> 0, s12 |-> 0, s13 |-> 0, s14 |-> 0,
     total |-> 0]

Ok_Speed(self) == [ok |-> TRUE, self |-> self, err |-> "none"]

Err_InvalidSpeed(self) == [ok |-> FALSE, self |-> self, err |-> "InvalidSpeed"]

\* The if/else chain of insert: the count with one range counter and total
\* incremented, or InvalidSpeed with the count as it was.
SpeedRanges(self, speed) ==
    IF RangeInclusive_contains(0, 1500, speed) THEN
        Ok_Speed([self EXCEPT !.s1 = @ + 1, !.total = @ + 1])
    ELSE IF RangeInclusive_contains(1510, 2000, speed) THEN
        Ok_Speed([self EXCEPT !.s2 = @ + 1, !.total = @ + 1])
    ELSE IF RangeInclusive_contains(2010, 2500, speed) THEN
        Ok_Speed([self EXCEPT !.s3 = @ + 1, !.total = @ + 1])
    ELSE IF RangeInclusive_contains(2510, 3000, speed) THEN
        Ok_Speed([self EXCEPT !.s4 = @ + 1, !.total = @ + 1])
    ELSE IF RangeInclusive_contains(3010, 3500, speed) THEN
        Ok_Speed([self EXCEPT !.s5 = @ + 1, !.total = @ + 1])
    ELSE IF RangeInclusive_contains(3510, 4000, speed) THEN
        Ok_Speed([self EXCEPT !.s6 = @ + 1, !.total = @ + 1])
    ELSE IF RangeInclusive_contains(4010, 4500, speed) THEN
        Ok_Speed([self EXCEPT !.s7 = @ + 1, !.total = @ + 1])
    ELSE IF RangeInclusive_contains(4510, 5000, speed) THEN
        Ok_Speed([self EXCEPT !.s8 = @ + 1, !.total = @ + 1])
    ELSE IF RangeInclusive_contains(5010, 5500, speed) THEN
        Ok_Speed([self EXCEPT !.s9 = @ + 1, !.total = @ + 1])
    ELSE IF RangeInclusive_contains(5510, 6000, speed) THEN
        Ok_Speed([self EXCEPT !.s10 = @ + 1, !.total = @ + 1])
    ELSE IF RangeInclusive_contains(6010, 6500, speed) THEN
        Ok_Speed([self EXCEPT !.s11 = @ + 1, !.total = @ + 1])
    ELSE IF RangeInclusive_contains(6510, 7000, speed) THEN
        Ok_Speed([self EXCEPT !.s12 = @ + 1, !.total = @ + 1])
    ELSE IF RangeInclusive_contains(7010, 7500, speed) THEN
        Ok_Speed([self EXCEPT !.s13 = @ + 1, !.total = @ + 1])
    ELSE IF RangeFrom_contains(7510, speed) THEN
        Ok_Speed([self EXCEPT !.s14 = @ + 1, !.total = @ + 1])
    ELSE
        Err_InvalidSpeed(self)

\* insert with total incremented on entry, before the speed is matched to a
\* range: a rejected speed is counted in total and in no range counter.
SpeedRangeCount_insert_total_first(self, speed) ==
    LET counted == [self EXCEPT !.total = @ + 1]
        r == IF is_sign_negative(speed) THEN Err_InvalidSpeed(self)
             ELSE SpeedRanges(self, speed)
    IN  IF r.ok THEN r ELSE Err_InvalidSpeed(counted)

\* SpeedRangeCount::insert.  The counters are i32; they stay far below 2^31 here.
SpeedRangeCount_insert(self, speed) ==
    IF is_sign_negative(speed) THEN Err_InvalidSpeed(self)
    ELSE SpeedRanges(self, speed)

\* The multiples of 5 at which a range ends.
RangeEnds == {1500 + 500 * k : k \in 0..12}

\* The speeds passed to insert: each range end, the next tenth and the
\* twentieth between them, the speeds of the unit test, and the special f32
\* values.
Speeds ==
    {Finite(0, e + d) : e \in RangeEnds, d \in {0, 5, 10}}
    \cup {Finite(0, 0), Finite(0, 10), Finite(0, 10000), Finite(0, 12000)}
    \cup {Finite(1, 0), Finite(1, 10), Finite(1, 1500)}
    \cup {Infinity(0), Infinity(1), NaN(0), NaN(1)}

\* The speeds tests::speed_binning_is_correct inserts, in order; the first
\* two inserts are asserted to fail and the other 30 are unwrapped.
TestSpeeds ==
    << Finite(1, 10), Finite(1, 0),
       Finite(0, 0), Finite(0, 10), Finite(0, 1500),
       Finite(0, 1510), Finite(0, 2000),
       Finite(0, 2010), Finite(0, 2500),
       Finite(0, 2510), Finite(0, 3000),
       Finite(0, 3010), Finite(0, 3500),
       Finite(0, 3510), Finite(0, 4000),
       Finite(0, 4010), Finite(0, 4500),
       Finite(0, 4510), Finite(0, 5000),
       Finite(0, 5010), Finite(0, 5500),
       Finite(0, 5510), Finite(0, 6000),
       Finite(0, 6010), Finite(0, 6500),
       Finite(0, 6510), Finite(0, 7000),
       Finite(0, 7010), Finite(0, 7500),
       Finite(0, 7510), Finite(0, 10000), Finite(0, 12000) >>

SpeedIdle ==
    /\ speed_count = SpeedRangeCount_new(0, "North")
    /\ speed_before = SpeedRangeCount_new(0, "North")
    /\ speed_arg = NoSpeed
    /\ speed_res = "none"
    /\ speed_calls = 0
    /\ speed_oks = 0
    /\ test_i = 0

SpeedInit ==
    /\ \E d \in Directions : speed_count = SpeedRangeCount_new(123, d)
    /\ speed_before = speed_count
    /\ speed_arg = NoSpeed
    /\ speed_res = "none"
    /\ speed_calls = 0
    /\ speed_oks = 0
    /\ test_i = 0

\* The effect of one call self.insert(speed) on the variables.
SpeedApply(speed) ==
    LET r == SpeedRangeCount_insert(speed_count, speed)
    IN  /\ speed_count' = r.self
        /\ speed_before' = speed_count
        /\ speed_arg' = speed
        /\ speed_res' = IF r.ok THEN "Ok" ELSE r.err
        /\ speed_calls' = speed_calls + 1
        /\ speed_oks' = speed_oks + (IF r.ok THEN 1 ELSE 0)

\* One call of SpeedRangeCount::insert with any speed.
SpeedInsert ==
    /\ test_i = 0
    /\ speed_calls < MaxSpeedInserts
    /\ \E speed \in Speeds : SpeedApply(speed)
    /\ UNCHANGED test_i
    /\ UNCHANGED not_speed_vars

\* The next insert of tests::speed_binning_is_correct, on
\* SpeedRangeCount::new(123, Direction::West).
SpeedTestStep ==
    /\ speed_count.direction = "West"
    /\ speed_calls = test_i
    /\ test_i < Len(TestSpeeds)
    /\ SpeedApply(TestSpeeds[test_i + 1])
    /\ test_i' = test_i + 1
    /\ UNCHANGED not_speed_vars

----------------------------------------------------------------------------
(* time::Time and time_bin *)

\* A time::Time: hour, minute, second and nanosecond within the second.
Time(h, m, sec, ns) == [hour |-> h, minute |-> m, second |-> sec, nanosecond |-> ns]

NoTime == [hour |-> 0 - 1, minute |-> 0 - 1, second |-> 0 - 1, nanosecond |-> 0 - 1]

Ok_Time(t) == [ok |-> TRUE, time |-> t]

Err_ComponentRange == [ok |-> FALSE, time |-> NoTime]

NoBin == [ok |-> FALSE, time |-> Time(0, 0, 0, 0)]

\* Time::replace_second: fails for a second outside 0..59, otherwise replaces
\* the second and keeps hour, minute and nanosecond.
replace_second(t, sec) ==
    IF sec \in 0..59 THEN Ok_Time([t EXCEPT !.second = sec]) ELSE Err_ComponentRange

\* Time::replace_minute: fails for a minute outside 0..59, otherwise replaces
\* the minute and keeps hour, second and nanosecond.
replace_minute(t, m) ==
    IF m \in 0..59 THEN Ok_Time([t EXCEPT !.minute = m]) ELSE Err_ComponentRange

\* time_bin with the range ends one too far: 0..=15, 16..=30, 31..=45.
time_bin_ends_shifted(t) ==
    LET r == replace_second(t, 0)
    IN  IF ~r.ok THEN r
        ELSE CASE r.time.minute \in 0..15 -> replace_minute(r.time, 0)
               [] r.time.minute \in 16..30 -> replace_minute(r.time, 15)
               [] r.time.minute \in 31..45 -> replace_minute(r.time, 30)
               [] OTHER -> replace_minute(r.time, 45)

\* time_bin: each `?` returns the ComponentRange error of the replace call.
time_bin(t) ==
    LET r == replace_second(t, 0)
    IN  IF ~r.ok THEN r
        ELSE CASE r.time.minute \in 0..14 -> replace_minute(r.time, 0)
               [] r.time.minute \in 15..29 -> replace_minute(r.time, 15)
               [] r.time.minute \in 30..44 -> replace_minute(r.time, 30)
               [] OTHER -> replace_minute(r.time, 45)

\* The valid times passed to time_bin: every minute of two hours, at the
\* first and the last second, on the second and half a second after it.
Times ==
    {Time(h, m, sec, ns) : h \in {10, 23}, m \in 0..59, sec \in {0, 59},
                           ns \in {0, 500000000}}

TimeIdle ==
    /\ time_a = NoTime /\ bin_a = NoBin
    /\ time_b = NoTime /\ bin_b = NoBin

TimeInit ==
    /\ time_a \in Times /\ bin_a = NoBin
    /\ time_b = NoTime /\ bin_b = NoBin

\* One call of time_bin(time_a).
TimeBinCall ==
    /\ bin_a = NoBin
    /\ bin_a' = time_bin(time_a)
    /\ UNCHANGED <<time_a, time_b, bin_b>>
    /\ UNCHANGED not_time_vars

\* The caller keeps the last time and its bin and passes another time.
TimeBinAgain ==
    /\ bin_a # NoBin
    /\ time_b = NoTime
    /\ time_b' = time_a /\ bin_b' = bin_a
    /\ time_a' \in Times /\ bin_a' = NoBin
    /\ UNCHANGED not_time_vars

----------------------------------------------------------------------------
(* create_speed_and_class_count *)

\* struct BinnedCountKey, built as create_speed_and_class_count builds it.
\* A key of the 15-minute period alone, the same for every channel.
BinnedCountKey_without_channel(date, time_part, channel) ==
    [datetime |-> [date |-> date, time |-> time_part], channel |-> 0]

BinnedCountKey(date, time_part, channel) ==
    [datetime |-> [date |-> date, time |-> time_part], channel |-> channel]

\* struct CountedVehicle
CountedVehicle(date, time, channel, class, speed) ==
    [date |-> date, time |-> time, channel |-> channel, class |-> class,
     speed |-> speed]

NoCount == CountedVehicle(0, NoTime, 0, "none", NoSpeed)

\* struct CountMetadata with its struct Directions; direction2 is an Option,
\* "None" when the count has one direction.
CountMetadata(technician, dvrpc_num, direction1, direction2, counter_id, speed_limit) ==
    [technician |-> technician, dvrpc_num |-> dvrpc_num,
     directions |-> [direction1 |-> direction1, direction2 |-> direction2],
     counter_id |-> counter_id, speed_limit |-> speed_limit]

EmptyMap == [k \in {} |-> 0]

\* map.insert(key, value) in place of entry(key).or_insert(value): the value
\* under key is replaced when key was present.
entry_insert_always(map, key, value) ==
    [k \in DOMAIN map \cup {key} |-> IF k = key THEN value ELSE map[k]]

\* map.entry(key).or_insert(value): the map, with value under key if key was absent.
entry_or_insert(map, key, value) ==
    IF key \in DOMAIN map THEN map
    ELSE [k \in DOMAIN map \cup {key} |-> IF k = key THEN value ELSE map[k]]

\* The channel match with a catch-all arm that takes direction1.
ResolveDirection_catch_all_direction1(md, channel) ==
    CASE channel = 2 ->
            IF md.directions.direction2 = "None"
            THEN [kind |-> "panic", direction |-> "none"]
            ELSE [kind |-> "direction", direction |-> md.directions.direction2]
      [] OTHER -> [kind |-> "direction", direction |-> md.directions.direction1]

\* The channel match with channel 2 taking direction1 as well.
ResolveDirection_always_direction1(md, channel) ==
    CASE channel = 1 -> [kind |-> "direction", direction |-> md.directions.direction1]
      [] channel = 2 ->
            IF md.directions.direction2 = "None"
            THEN [kind |-> "panic", direction |-> "none"]
            ELSE [kind |-> "direction", direction |-> md.directions.direction1]
      [] OTHER -> [kind |-> "continue", direction |-> "none"]

\* The match on count.channel: a direction, a panic of Option::unwrap on
\* None, or `continue` after error!.
ResolveDirection(md, channel) ==
    CASE channel = 1 -> [kind |-> "direction", direction |-> md.directions.direction1]
      [] channel = 2 ->
            IF md.directions.direction2 = "None"
            THEN [kind |-> "panic", direction |-> "none"]
            ELSE [kind |-> "direction", direction |-> md.directions.direction2]
      [] OTHER -> [kind |-> "continue", direction |-> "none"]

Iteration(pc, speed_map, class_map, how) ==
    [pc |-> pc, speed_map |-> speed_map, class_map |-> class_map, outcome |-> how]

\* The loop body with a filter for partial periods: the vehicle that opens a
\* bucket creates it and is not counted in it.
ProcessCount_drop_opening(md, speed_map, class_map, c) ==
    LET d == ResolveDirection(md, c.channel)
        t == time_bin(c.time)
        key == BinnedCountKey(c.date, t.time, c.channel)
        sm == entry_or_insert(speed_map, key, SpeedRangeCount_new(md.dvrpc_num, d.direction))
        r == SpeedRangeCount_insert(sm[key], c.speed)
        cm == entry_or_insert(class_map, key, VehicleClassCount_new(md.dvrpc_num, d.direction))
    IN  IF d.kind = "panic" THEN Iteration("panicked", speed_map, class_map, "unwrap_panic")
        ELSE IF d.kind = "continue" THEN Iteration("loop", speed_map, class_map, "channel_error")
        ELSE IF ~t.ok THEN Iteration("loop", speed_map, class_map, "time_error")
        ELSE IF ~r.ok THEN Iteration("loop", sm, class_map, "speed_error")
        ELSE IF key \notin DOMAIN class_map THEN Iteration("loop", sm, cm, "inserted")
        ELSE Iteration("loop", [sm EXCEPT ![key] = r.self],
                       [cm EXCEPT ![key] = VehicleClassCount_insert(cm[key], c.class)],
                       "inserted")

\* One iteration of the loop over `counts`, from the maps before it.
ProcessCount(md, speed_map, class_map, c) ==
    LET d == ResolveDirection(md, c.channel)
        t == time_bin(c.time)
        key == BinnedCountKey(c.date, t.time, c.channel)
        sm == entry_or_insert(speed_map, key, SpeedRangeCount_new(md.dvrpc_num, d.direction))
        r == SpeedRangeCount_insert(sm[key], c.speed)
        cm == entry_or_insert(class_map, key, VehicleClassCount_new(md.dvrpc_num, d.direction))
    IN  IF d.kind = "panic" THEN Iteration("panicked", speed_map, class_map, "unwrap_panic")
        ELSE IF d.kind = "continue" THEN Iteration("loop", speed_map, class_map, "channel_error")
        ELSE IF ~t.ok THEN Iteration("loop", speed_map, class_map, "time_error")
        ELSE IF ~r.ok THEN Iteration("loop", sm, class_map, "speed_error")
        ELSE Iteration("loop", [sm EXCEPT ![key] = r.self],
                       [cm EXCEPT ![key] = VehicleClassCount_insert(cm[key], c.class)],
                       "inserted")

\* The metadata of a count with one direction and of a count with two.
Metadatas ==
    {CountMetadata("rc", 166905, "East", d2, 40972, 35) : d2 \in {"None", "West"}}

\* The vehicles of `counts`: three times of one 15-minute interval, one of
\* them half a second past the second, and one of the next interval; channels
\* below, at and above 1 and 2; a named and the unclassified class; an
\* accepted speed and two rejected ones.
Counts ==
    {CountedVehicle(1, t, ch, cl, sp) :
        t \in {Time(10, 0, 0, 0), Time(10, 14, 59, 0), Time(10, 14, 59, 500000000),
                Time(10, 15, 0, 0)},
        ch \in 0..3,
        cl \in {"PassengerCars", "UnclassifiedVehicle"},
        sp \in {Finite(0, 1000), Finite(0, 1505), Finite(1, 10)}}

AggIdle ==
    /\ metadata = CountMetadata("", 0, "North", "None", 0, 0)
    /\ agg_pc = "idle"
    /\ fifteen_min_speed_range_count = EmptyMap
    /\ fifteen_min_vehicle_class_count = EmptyMap
    /\ count = NoCount
    /\ outcome = "none"
    /\ speed_map_before = EmptyMap
    /\ class_map_before = EmptyMap
    /\ n_counts = 0
    /\ n_inserted = 0

\* The state at the head of the loop, both maps HashMap::new().
AggInit ==
    /\ metadata \in Metadatas
    /\ agg_pc = "loop"
    /\ fifteen_min_speed_range_count = EmptyMap
    /\ fifteen_min_vehicle_class_count = EmptyMap
    /\ count = NoCount
    /\ outcome = "none"
    /\ speed_map_before = EmptyMap
    /\ class_map_before = EmptyMap
    /\ n_counts = 0
    /\ n_inserted = 0

\* The loop body on the next element of `counts`.
AggIterate ==
    /\ agg_pc = "loop"
    /\ n_counts < MaxCounts
    /\ \E c \in Counts :
          LET it == ProcessCount(metadata, fifteen_min_speed_range_count,
                                 fifteen_min_vehicle_class_count, c)
          IN  /\ agg_pc' = it.pc
              /\ fifteen_min_speed_range_count' = it.speed_map
              /\ fifteen_min_vehicle_class_count' = it.class_map
              /\ outcome' = it.outcome
              /\ count' = c
              /\ n_inserted' = n_inserted + (IF it.outcome = "inserted" THEN 1 ELSE 0)
    /\ speed_map_before' = fifteen_min_speed_range_count
    /\ class_map_before' = fifteen_min_vehicle_class_count
    /\ n_counts' = n_counts + 1
    /\ UNCHANGED metadata
    /\ UNCHANGED not_agg_vars

\* `counts` is exhausted: the two maps are returned.
AggReturn ==
    /\ agg_pc = "loop"
    /\ agg_pc' = "returned"
    /\ UNCHANGED <<metadata, fifteen_min_speed_range_count,
                   fifteen_min_vehicle_class_count, count, outcome,
                   speed_map_before, class_map_before, n_counts, n_inserted>>
    /\ UNCHANGED not_agg_vars

----------------------------------------------------------------------------
(* check_data::check: values *)

\* Option<u32>
None == [some |-> FALSE, v |-> 0]

Some(n) == [some |-> TRUE, v |-> n]

\* const DIR_PROPORTION_LOWER_BOUND: f32 = 0.40, in hundredths.
DIR_PROPORTION_LOWER_BOUND == 40

\* const BIKE_COUNT_MAX: u32 = 20
BIKE_COUNT_MAX == 20

\* The types tc_header may hold for a count.
CountTypes == {"Class", "Volume", "15 min Volume", "Bicycle 1", "Pedestrian", "Manual Class"}

\* count_type.as_str().contains("Bicycle"), on CountTypes.
contains_Bicycle(t) == t \in {"Bicycle 1"}

\* ["Class", "Volume", "15 min Volume"].contains(&count_type.as_str())
is_motor_vehicle_type(t) == t \in {"Class", "Volume", "15 min Volume"}

\* A warn!(target: "check", ..): the rule that warns and the slot it names.
Warning(rule, slot) == [rule |-> rule, slot |-> slot]

\* a as f32 / b as f32 * 100.0 for two u32.  The sums stay below 2^21 here,
\* where both conversions are exact and the rounded quotient and product
\* compare with 75.0 and 10.0 as the exact ratio does; 0/0 is NaN and a/0,
\* a > 0, is +infinity.
Percent(a, b) ==
    IF b = 0 THEN [kind |-> IF a = 0 THEN "nan" ELSE "infinite", num |-> 0, den |-> 1]
    ELSE [kind |-> "finite", num |-> a * 100, den |-> b]

\* percent < bound, for a whole bound
Percent_lt(x, bound) == x.kind = "finite" /\ x.num < bound * x.den

\* percent > bound, for a whole bound
Percent_gt(x, bound) == x.kind = "infinite" \/ (x.kind = "finite" /\ x.num > bound * x.den)

\* iter().map(..).sum::<u32>() over a Vec of records; the sums stay far below 2^32.
RECURSIVE SumField(_, _)
SumField(rows, f) == IF rows = << >> THEN 0 ELSE Head(rows)[f] + SumField(Tail(rows), f)

\* The c2, c15 and total of a tc_clacount row, as a ClassCountCheck; its
\* datetime, lane and dir are not read by the rule.
ClassCountCheck(t, c2, c15) == [c2 |-> c2, c15 |-> c15, total |-> t]

\* The tc_clacount rows of the model: rows with c15 <= c2 <= total as
\* VehicleClassCount::insert leaves them, and one row that holds unclassified
\* vehicles under a total of 0.
ClassRows ==
    {ClassCountCheck(0, 0, 0), ClassCountCheck(100, 75, 10), ClassCountCheck(100, 70, 10),
     ClassCountCheck(100, 76, 11), ClassCountCheck(100, 74, 15), ClassCountCheck(100, 80, 5),
     ClassCountCheck(1000, 700, 150), ClassCountCheck(20, 15, 2),
     ClassCountCheck(0, 0, 5)}

\* The class-mix rule with `<= 75.0` and `>= 10.0` for its comparisons.
ClassMixWarnings_inclusive(rows) ==
    LET c2_percent == Percent(SumField(rows, "c2"), SumField(rows, "total"))
        c15_percent == Percent(SumField(rows, "c15"), SumField(rows, "total"))
    IN  (IF ~Percent_gt(c2_percent, 75) /\ c2_percent.kind = "finite"
            THEN << Warning("class2", "") >> ELSE << >>)
        \o (IF ~Percent_lt(c15_percent, 10) /\ c15_percent.kind # "nan"
            THEN << Warning("unclassified", "") >> ELSE << >>)

\* The warnings of the class-mix rule for the rows collected in `counts`.
ClassMixWarnings(rows) ==
    LET c2_sum == SumField(rows, "c2")
        c15_sum == SumField(rows, "c15")
        total_sum == SumField(rows, "total")
        c2_percent == Percent(c2_sum, total_sum)
        c15_percent == Percent(c15_sum, total_sum)
    IN  (IF Percent_lt(c2_percent, 75) THEN << Warning("class2", "") >> ELSE << >>)
        \o (IF Percent_gt(c15_percent, 10) THEN << Warning("unclassified", "") >> ELSE << >>)

\* The cntdir values and the totalcount values of the tc_volcount rows.
DirNames == {"north", "south", "east"}

VolTotals == {0, 15, 20, 30, 35, 55}

\* *count_by_dir.entry(direction).or_insert(total) += total: a direction seen
\* for the first time is entered with `total` and `total` is added to it.
accumulate(map, direction, t) ==
    IF direction \in DOMAIN map THEN [map EXCEPT ![direction] = @ + t]
    ELSE [d \in DOMAIN map \cup {direction} |-> IF d = direction THEN t + t ELSE map[d]]

\* The smallest and the largest value of a non-empty map, as min_by and
\* max_by with cmp on the values find them.
MinValue(map) == CHOOSE v \in {map[d] : d \in DOMAIN map} : \A d \in DOMAIN map : v <= map[d]

MaxValue(map) == CHOOSE v \in {map[d] : d \in DOMAIN map} : \A d \in DOMAIN map : v >= map[d]

\* smaller as f32 / total as f32 < bound/100: both u32 stay below 2^21 here,
\* where the rounded quotient compares with 0.40 as the exact ratio does; 0/0
\* is NaN, which is below nothing.
share_not_above(smaller, sum, bound) == sum # 0 /\ smaller * 100 <= bound * sum

share_below(smaller, sum, bound) == sum # 0 /\ smaller * 100 < bound * sum

\* The warning of the directional-balance rule for the accumulated totals.
DirectionWarnings(map) ==
    IF Cardinality(DOMAIN map) > 1
       /\ share_below(MinValue(map), MinValue(map) + MaxValue(map), DIR_PROPORTION_LOWER_BOUND)
    THEN << Warning("direction", "") >>
    ELSE << >>

\* The hourly columns of tc_volcount in the order the query selects them
\* (result.0 .. result.18), each named by the key it is inserted under.
Columns ==
    << "am4", "am5", "am6", "am7", "am8", "am9", "am10", "am11", "pm12", "pm1",
       "pm2", "pm3", "pm4", "pm5", "pm6", "pm7", "pm8", "pm9", "pm10" >>

Slots == {Columns[i] : i \in 1..Len(Columns)}

\* str::as_bytes of each key.
as_bytes ==
    [am4 |-> << 97, 109, 52 >>,
     am5 |-> << 97, 109, 53 >>,
     am6 |-> << 97, 109, 54 >>,
     am7 |-> << 97, 109, 55 >>,
     am8 |-> << 97, 109, 56 >>,
     am9 |-> << 97, 109, 57 >>,
     am10 |-> << 97, 109, 49, 48 >>,
     am11 |-> << 97, 109, 49, 49 >>,
     pm12 |-> << 112, 109, 49, 50 >>,
     pm1 |-> << 112, 109, 49 >>,
     pm2 |-> << 112, 109, 50 >>,
     pm3 |-> << 112, 109, 51 >>,
     pm4 |-> << 112, 109, 52 >>,
     pm5 |-> << 112, 109, 53 >>,
     pm6 |-> << 112, 109, 54 >>,
     pm7 |-> << 112, 109, 55 >>,
     pm8 |-> << 112, 109, 56 >>,
     pm9 |-> << 112, 109, 57 >>,
     pm10 |-> << 112, 109, 49, 48 >>]

\* Ord for [u8]: the first differing byte decides, a proper prefix is smaller.
RECURSIVE bytes_lt(_, _)
bytes_lt(x, y) ==
    IF y = << >> THEN FALSE
    ELSE IF x = << >> THEN TRUE
    ELSE IF Head(x) # Head(y) THEN Head(x) < Head(y)
    ELSE bytes_lt(Tail(x), Tail(y))

\* Ord for &str, the order of the keys of a BTreeMap<&str, _>.
str_lt(a, b) == bytes_lt(as_bytes[a], as_bytes[b])

\* The keys of a BTreeMap in the order its iterator yields them: ascending.
RECURSIVE into_iter_keys(_)
into_iter_keys(keys) ==
    IF keys = {} THEN << >>
    ELSE LET first == CHOOSE k \in keys : \A o \in keys \ {k} : str_lt(k, o)
         IN  << first >> \o into_iter_keys(keys \ {first})

\* The BTreeMap `hourly` after the 19 inserts: result.(i-1) under Columns[i].
BTreeMap_hourly(result) ==
    [k \in Slots |-> result[CHOOSE i \in 1..Len(Columns) : Columns[i] = k]]

\* count.is_some_and(|c| c == 0) with a None taken for a zero.
is_zero_or_none(c) == ~c.some \/ c.v = 0

\* count.is_some_and(|c| c == 0)
is_some_and_zero(c) == c.some /\ c.v = 0

\* consecutive_zeros > 1 with `>= 1` for the comparison.
at_least_one(n) == n >= 1

\* consecutive_zeros > 1
more_than_one(n) == n > 1

\* The inner loop over the keys still to visit, with the counter at cz: the
\* counter it ends with and the warnings it emits, in order.
RECURSIVE scan_hourly(_, _, _)
scan_hourly(h, keys, cz) ==
    IF keys = << >> THEN [consecutive_zeros |-> cz, warnings |-> << >>]
    ELSE LET hour == Head(keys)
             n == IF is_some_and_zero(h[hour]) THEN cz + 1 ELSE 0
             rest == scan_hourly(h, Tail(keys), n)
         IN  [consecutive_zeros |-> rest.consecutive_zeros,
              warnings |-> (IF more_than_one(n) THEN << Warning("zeros", hour) >>
                            ELSE << >>) \o rest.warnings]

\* The hourly totals of the model: the first MaxVariedSlots columns of
\* VariedColumns read NULL, 0 or 5 and every other column reads 5.  am10, am11
\* and am4 are the first three keys of the map, pm9 is its last, and am9, am10
\* are neighbouring hours whose keys are not neighbours in the map.
VariedColumns == << "am4", "am10", "am11", "pm9", "am9", "am5", "pm1", "pm10" >>

HourlyCounts == {None, Some(0), Some(5)}

Varied == {VariedColumns[i] : i \in 1..MaxVariedSlots}

HourlyResults ==
    {[i \in 1..Len(Columns) |-> IF Columns[i] \in Varied THEN f[Columns[i]] ELSE Some(5)] :
        f \in [Varied -> HourlyCounts]}

\* The body of the outer loop on one row: the map built from it, the keys in
\* the order the inner loop visits them, the counter it ends with (it starts
\* at 0 for every row) and the warnings it emits.
LoopBody(result) ==
    LET h == BTreeMap_hourly(result)
        row == scan_hourly(h, into_iter_keys(DOMAIN h), 0)
    IN  [hourly |-> h, inspected |-> into_iter_keys(DOMAIN h),
         consecutive_zeros |-> row.consecutive_zeros, warnings |-> row.warnings]

\* The loop body on every row of the model.
LoopBodies == {LoopBody(result) : result \in HourlyResults}

\* The tc_bikecount totals of the model.
BikeTotals == {0, 20, 21}

\* The bicycle rule with `>=` for its comparison.
BikeWarnings_at_least(t) == IF t >= BIKE_COUNT_MAX THEN << Warning("bicycle", "") >> ELSE << >>

\* The warning of the bicycle rule for one total.
BikeWarnings(t) == IF t > BIKE_COUNT_MAX THEN << Warning("bicycle", "") >> ELSE << >>


----------------------------------------------------------------------------
(* check_data::check *)

\* Result<(), CountError>
NoReturn == [tag |-> "none", msg |-> ""]

Ok_unit == [tag |-> "Ok", msg |-> ""]

Err_DataCheckError(msg) == [tag |-> "DataCheckError", msg |-> msg]

\* The error a `?` on a query or on a row converts and returns.
Err_oracle == [tag |-> "oracle::Error", msg |-> ""]

\* The four rules in the order check runs them, and the types each runs for.
Phases == << "mix", "dir", "zeros", "bike" >>

PhaseSet == {Phases[i] : i \in 1..Len(Phases)}

\* Applies with the class-mix rule run for every motor vehicle type.
Applies_mix_for_motor(phase, t) ==
    CASE phase = "mix" -> is_motor_vehicle_type(t)
      [] phase = "dir" -> is_motor_vehicle_type(t)
      [] phase = "zeros" -> is_motor_vehicle_type(t)
      [] phase = "bike" -> contains_Bicycle(t)

Applies(phase, t) ==
    CASE phase = "mix" -> t = "Class"
      [] phase = "dir" -> is_motor_vehicle_type(t)
      [] phase = "zeros" -> is_motor_vehicle_type(t)
      [] phase = "bike" -> contains_Bicycle(t)

\* Where control goes after `phase` ("start": after the type lookup): to the
\* next rule whose `if` holds for the type, else to the final Ok(()).
NextPhase(phase, t) ==
    LET at == IF phase = "start" THEN 0
              ELSE CHOOSE i \in 1..Len(Phases) : Phases[i] = phase
        later == {i \in 1..Len(Phases) : i > at /\ Applies(Phases[i], t)}
    IN  IF later = {} THEN "return"
        ELSE Phases[CHOOSE i \in later : \A j \in later : i <= j]

\* `queried` once control has gone to pc: entering a rule's block issues its query.
Issued(q, pc) == IF pc \in PhaseSet THEN q \cup {pc} ELSE q

ChkIdle ==
    /\ chk_pc = "idle"
    /\ chk_result = NoReturn
    /\ count_type = ""
    /\ counts = << >>
    /\ count_by_dir = EmptyMap
    /\ rows_by_dir = EmptyMap
    /\ hourly = EmptyMap
    /\ inspected = << >>
    /\ consecutive_zeros = 0
    /\ carried = 0
    /\ total = 0
    /\ emitted = << >>
    /\ n_rows = 0
    /\ lookup = ""
    /\ queried = {}

\* check has been called and is at the type lookup.
ChkInit ==
    /\ chk_pc = "start"
    /\ chk_result = NoReturn
    /\ count_type = ""
    /\ counts = << >>
    /\ count_by_dir = EmptyMap
    /\ rows_by_dir = EmptyMap
    /\ hourly = EmptyMap
    /\ inspected = << >>
    /\ consecutive_zeros = 0
    /\ carried = 0
    /\ total = 0
    /\ emitted = << >>
    /\ n_rows = 0
    /\ lookup = ""
    /\ queried = {}

mix_locals == <<counts>>
dir_locals == <<count_by_dir, rows_by_dir>>
zeros_locals == <<hourly, inspected, consecutive_zeros, carried>>

\* The type lookup returns Ok(Some(v)).
TypeFound ==
    /\ chk_pc = "start"
    /\ \E t \in CountTypes :
          /\ count_type' = t
          /\ chk_pc' = NextPhase("start", t)
          /\ queried' = Issued(queried, NextPhase("start", t))
    /\ UNCHANGED <<chk_result, mix_locals, dir_locals, zeros_locals, total, emitted,
                   n_rows>>
    /\ lookup' = "Some"
    /\ UNCHANGED not_chk_vars

\* Ok(None) taken for an empty type name, with which check goes on.
TypeNull_as_empty_type ==
    /\ chk_pc = "start"
    /\ chk_pc' = NextPhase("start", "")
    /\ lookup' = "None"
    /\ UNCHANGED <<chk_result, count_type, mix_locals, dir_locals, zeros_locals, total,
                   emitted, n_rows, queried>>
    /\ UNCHANGED not_chk_vars

\* The type lookup returns Ok(None).
TypeNull ==
    /\ chk_pc = "start"
    /\ chk_pc' = "returned"
    /\ chk_result' = Err_DataCheckError("unable to identify type of count")
    /\ UNCHANGED <<count_type, mix_locals, dir_locals, zeros_locals, total, emitted,
                   n_rows>>
    /\ lookup' = "None"
    /\ UNCHANGED queried
    /\ UNCHANGED not_chk_vars

\* The type lookup returns Err(_).
TypeErr ==
    /\ chk_pc = "start"
    /\ chk_pc' = "returned"
    /\ chk_result' = Err_DataCheckError("recordnum not found in TC_HEADER table")
    /\ UNCHANGED <<count_type, mix_locals, dir_locals, zeros_locals, total, emitted,
                   n_rows>>
    /\ lookup' = "Err"
    /\ UNCHANGED queried
    /\ UNCHANGED not_chk_vars

\* The query of a rule fails: `conn.query_as(..)?` returns the error.
QueryErr ==
    /\ chk_pc \in PhaseSet
    /\ n_rows = 0
    /\ chk_pc' = "returned"
    /\ chk_result' = Err_oracle
    /\ UNCHANGED <<count_type, mix_locals, dir_locals, zeros_locals, total, emitted,
                   n_rows>>
    /\ UNCHANGED <<lookup, queried>>
    /\ UNCHANGED not_chk_vars

\* The next row of a rule's result set fails: `result?` returns the error.
RowErr ==
    /\ chk_pc \in PhaseSet
    /\ n_rows < MaxRows
    /\ chk_pc' = "returned"
    /\ chk_result' = Err_oracle
    /\ emitted' = << >>
    /\ UNCHANGED <<count_type, mix_locals, dir_locals, zeros_locals, total, n_rows>>
    /\ UNCHANGED <<lookup, queried>>
    /\ UNCHANGED not_chk_vars

\* Class-mix rule: the next tc_clacount row is pushed on `counts`.
MixRow ==
    /\ chk_pc = "mix"
    /\ n_rows < MaxRows
    /\ \E r \in ClassRows : counts' = Append(counts, r)
    /\ n_rows' = n_rows + 1
    /\ emitted' = << >>
    /\ UNCHANGED <<chk_pc, chk_result, count_type, dir_locals, zeros_locals, total>>
    /\ UNCHANGED <<lookup, queried>>
    /\ UNCHANGED not_chk_vars

\* Class-mix rule: one of the three unwraps on the next row panics.
MixRowPanic ==
    /\ chk_pc = "mix"
    /\ n_rows < MaxRows
    /\ chk_pc' = "panicked"
    /\ emitted' = << >>
    /\ UNCHANGED <<chk_result, count_type, mix_locals, dir_locals, zeros_locals,
                   total, n_rows>>
    /\ UNCHANGED <<lookup, queried>>
    /\ UNCHANGED not_chk_vars

\* Class-mix rule: the rows are exhausted, the sums are taken and compared.
MixEnd ==
    /\ chk_pc = "mix"
    /\ chk_pc' = "mix_end"
    /\ emitted' = ClassMixWarnings(counts)
    /\ UNCHANGED <<chk_result, count_type, mix_locals, dir_locals, zeros_locals,
                   total, n_rows>>
    /\ UNCHANGED <<lookup, queried>>
    /\ UNCHANGED not_chk_vars

\* Class-mix rule: the end of its block, where `counts` is dropped.
MixLeave ==
    /\ chk_pc = "mix_end"
    /\ chk_pc' = NextPhase("mix", count_type)
    /\ counts' = << >>
    /\ emitted' = << >>
    /\ n_rows' = 0
    /\ UNCHANGED <<chk_result, count_type, dir_locals, zeros_locals, total>>
    /\ queried' = Issued(queried, NextPhase("mix", count_type))
    /\ UNCHANGED lookup
    /\ UNCHANGED not_chk_vars

\* Directional-balance rule: the next (totalcount, cntdir) row is accumulated.
DirRow ==
    /\ chk_pc = "dir"
    /\ n_rows < MaxRows
    /\ \E direction \in DirNames, t \in VolTotals :
          /\ count_by_dir' = accumulate(count_by_dir, direction, t)
          /\ rows_by_dir' =
                [d \in DOMAIN rows_by_dir \cup {direction} |->
                    (IF d \in DOMAIN rows_by_dir THEN rows_by_dir[d] ELSE 0)
                    + (IF d = direction THEN t ELSE 0)]
    /\ n_rows' = n_rows + 1
    /\ emitted' = << >>
    /\ UNCHANGED <<chk_pc, chk_result, count_type, mix_locals, zeros_locals, total>>
    /\ UNCHANGED <<lookup, queried>>
    /\ UNCHANGED not_chk_vars

\* Directional-balance rule: the rows are exhausted, the shares are compared.
DirEnd ==
    /\ chk_pc = "dir"
    /\ chk_pc' = "dir_end"
    /\ emitted' = DirectionWarnings(count_by_dir)
    /\ UNCHANGED <<chk_result, count_type, mix_locals, dir_locals, zeros_locals,
                   total, n_rows>>
    /\ UNCHANGED <<lookup, queried>>
    /\ UNCHANGED not_chk_vars

\* Directional-balance rule: the end of its block, where the map is dropped.
DirLeave ==
    /\ chk_pc = "dir_end"
    /\ chk_pc' = NextPhase("dir", count_type)
    /\ count_by_dir' = EmptyMap
    /\ rows_by_dir' = EmptyMap
    /\ emitted' = << >>
    /\ n_rows' = 0
    /\ UNCHANGED <<chk_result, count_type, mix_locals, zeros_locals, total>>
    /\ queried' = Issued(queried, NextPhase("dir", count_type))
    /\ UNCHANGED lookup
    /\ UNCHANGED not_chk_vars

\* Consecutive-zero rule: the body of the outer loop on the next row.
ZerosRow ==
    /\ chk_pc = "zeros"
    /\ n_rows < MaxRows
    /\ \E body \in LoopBodies :
          /\ hourly' = body.hourly
          /\ inspected' = body.inspected
          /\ consecutive_zeros' = body.consecutive_zeros
          /\ emitted' = body.warnings
    /\ carried' = consecutive_zeros
    /\ n_rows' = n_rows + 1
    /\ UNCHANGED <<chk_pc, chk_result, count_type, mix_locals, dir_locals, total>>
    /\ UNCHANGED <<lookup, queried>>
    /\ UNCHANGED not_chk_vars

\* Consecutive-zero rule: the rows are exhausted.
ZerosEnd ==
    /\ chk_pc = "zeros"
    /\ chk_pc' = NextPhase("zeros", count_type)
    /\ hourly' = EmptyMap
    /\ inspected' = << >>
    /\ consecutive_zeros' = 0
    /\ carried' = 0
    /\ emitted' = << >>
    /\ n_rows' = 0
    /\ UNCHANGED <<chk_result, count_type, mix_locals, dir_locals, total>>
    /\ queried' = Issued(queried, NextPhase("zeros", count_type))
    /\ UNCHANGED lookup
    /\ UNCHANGED not_chk_vars

\* Bicycle rule: the next total; the first one above BIKE_COUNT_MAX warns and
\* breaks out of the loop.
BikeRow ==
    /\ chk_pc = "bike"
    /\ n_rows < MaxRows
    /\ \E t \in BikeTotals :
          /\ total' = t
          /\ emitted' = BikeWarnings(t)
          /\ chk_pc' = IF BikeWarnings(t) # << >> THEN "return" ELSE "bike"
    /\ n_rows' = n_rows + 1
    /\ UNCHANGED <<chk_result, count_type, mix_locals, dir_locals, zeros_locals>>
    /\ UNCHANGED <<lookup, queried>>
    /\ UNCHANGED not_chk_vars

\* Bicycle rule: the rows are exhausted.
BikeEnd ==
    /\ chk_pc = "bike"
    /\ chk_pc' = NextPhase("bike", count_type)
    /\ emitted' = << >>
    /\ UNCHANGED <<chk_result, count_type, mix_locals, dir_locals, zeros_locals,
                   total, n_rows>>
    /\ queried' = Issued(queried, NextPhase("bike", count_type))
    /\ UNCHANGED lookup
    /\ UNCHANGED not_chk_vars

\* The final Ok(()).
ReturnOk ==
    /\ chk_pc = "return"
    /\ chk_pc' = "returned"
    /\ chk_result' = Ok_unit
    /\ UNCHANGED <<count_type, mix_locals, dir_locals, zeros_locals, total, emitted,
                   n_rows>>
    /\ UNCHANGED <<lookup, queried>>
    /\ UNCHANGED not_chk_vars

----------------------------------------------------------------------------
(* CountMetadata::from_path *)

\* A &str as the sequence of its characters.
Digits == << "0", "1", "2", "3", "4", "5", "6", "7", "8", "9" >>

is_digit(c) == \E i \in 1..Len(Digits) : Digits[i] = c

to_digit(c) == (CHOOSE i \in 1..Len(Digits) : Digits[i] = c) - 1

\* i32::MAX
I32Max == 2147483647

ParseOk(v) == [ok |-> TRUE, v |-> v]

ParseErr == [ok |-> FALSE, v |-> 0]

\* The digits read left to right with checked_mul(10) and checked_add(digit):
\* the number they denote, ParseErr once it would pass i32::MAX.
RECURSIVE checked_decimal(_, _)
checked_decimal(s, acc) ==
    IF s = << >> THEN ParseOk(acc)
    ELSE IF acc > (I32Max - to_digit(Head(s))) \div 10 THEN ParseErr
    ELSE checked_decimal(Tail(s), acc * 10 + to_digit(Head(s)))

\* str::parse::<i32> on a part of the stem: an optional "+", then one or more
\* digits, the value within i32.  A part holds no "-", the separator.
parse_i32(s) ==
    LET digits == IF s # << >> /\ Head(s) = "+" THEN Tail(s) ELSE s
    IN  IF digits = << >> \/ \E i \in 1..Len(digits) : ~is_digit(digits[i]) THEN ParseErr
        ELSE checked_decimal(digits, 0)

\* str::split('-').collect::<Vec<&str>>()
RECURSIVE split_dash(_)
split_dash(s) ==
    IF \A i \in 1..Len(s) : s[i] # "-" THEN << s >>
    ELSE LET at == CHOOSE i \in 1..Len(s) : s[i] = "-" /\ \A j \in 1..(i - 1) : s[j] # "-"
         IN  << SubSeq(s, 1, at - 1) >> \o split_dash(SubSeq(s, at + 1, Len(s)))

\* Result<CountMetadata, CountError>
NoMetadata == [tag |-> "none"]

Ok_Metadata(m) == [tag |-> "Ok", metadata |-> m]

Err_BadPath == [tag |-> "BadPath"]

Err_InvalidFileName(problem) == [tag |-> "InvalidFileName", problem |-> problem]

\* The match on parts[2]: the Directions of a code, NoDirections for `_`.
NoDirections == [direction1 |-> "None", direction2 |-> "None"]

Directions_new(direction1, direction2) ==
    [direction1 |-> direction1, direction2 |-> direction2]

match_directions(code) ==
    CASE code = << "n", "s" >> -> Directions_new("North", "South")
      [] code = << "s", "n" >> -> Directions_new("South", "North")
      [] code = << "e", "w" >> -> Directions_new("East", "West")
      [] code = << "w", "e" >> -> Directions_new("West", "East")
      [] code = << "n", "n" >> -> Directions_new("North", "North")
      [] code = << "s", "s" >> -> Directions_new("South", "South")
      [] code = << "e", "e" >> -> Directions_new("East", "East")
      [] code = << "w", "w" >> -> Directions_new("West", "West")
      [] code = << "n" >> -> Directions_new("North", "None")
      [] code = << "s" >> -> Directions_new("South", "None")
      [] code = << "e" >> -> Directions_new("East", "None")
      [] code = << "w" >> -> Directions_new("West", "None")
      [] OTHER -> NoDirections

\* The Path argument: whether file_stem() and to_str() give a &str, and the
\* stem they give.
Path_with_stem(stem) == [stem |-> "utf8", chars |-> stem]

Path_without_stem == [stem |-> "none", chars |-> << >>]

Path_stem_not_utf8 == [stem |-> "not_utf8", chars |-> << >>]

\* from_path with the counter id looked at before the directions.
from_path_counter_first(p) ==
    IF p.stem # "utf8" THEN Err_BadPath
    ELSE LET parts == split_dash(p.chars)
         IN  IF Len(parts) < 5 THEN Err_InvalidFileName("TooFewParts")
             ELSE IF Len(parts) > 5 THEN Err_InvalidFileName("TooManyParts")
             ELSE IF parse_i32(parts[1]).ok THEN Err_InvalidFileName("InvalidTech")
             ELSE IF ~parse_i32(parts[2]).ok THEN Err_InvalidFileName("InvalidRecordNum")
             ELSE IF ~parse_i32(parts[4]).ok THEN Err_InvalidFileName("InvalidCounterID")
             ELSE IF match_directions(parts[3]) = NoDirections
                  THEN Err_InvalidFileName("InvalidDirections")
             ELSE IF parts[5] # << "n", "a" >> /\ ~parse_i32(parts[5]).ok
                  THEN Err_InvalidFileName("InvalidSpeedLimit")
             ELSE Ok_Metadata(CountMetadata(parts[1], parse_i32(parts[2]).v,
                                            match_directions(parts[3]).direction1,
                                            match_directions(parts[3]).direction2,
                                            parse_i32(parts[4]).v,
                                            IF parts[5] = << "n", "a" >> THEN None
                                            ELSE Some(parse_i32(parts[5]).v)))

\* CountMetadata::from_path(path)
from_path(p) ==
    IF p.stem # "utf8" THEN Err_BadPath
    ELSE LET parts == split_dash(p.chars)
         IN  IF Len(parts) < 5 THEN Err_InvalidFileName("TooFewParts")
             ELSE IF Len(parts) > 5 THEN Err_InvalidFileName("TooManyParts")
             ELSE IF parse_i32(parts[1]).ok THEN Err_InvalidFileName("InvalidTech")
             ELSE IF ~parse_i32(parts[2]).ok THEN Err_InvalidFileName("InvalidRecordNum")
             ELSE IF match_directions(parts[3]) = NoDirections
                  THEN Err_InvalidFileName("InvalidDirections")
             ELSE IF ~parse_i32(parts[4]).ok THEN Err_InvalidFileName("InvalidCounterID")
             ELSE IF parts[5] # << "n", "a" >> /\ ~parse_i32(parts[5]).ok
                  THEN Err_InvalidFileName("InvalidSpeedLimit")
             ELSE Ok_Metadata(CountMetadata(parts[1], parse_i32(parts[2]).v,
                                            match_directions(parts[3]).direction1,
                                            match_directions(parts[3]).direction2,
                                            parse_i32(parts[4]).v,
                                            IF parts[5] = << "n", "a" >> THEN None
                                            ELSE Some(parse_i32(parts[5]).v)))

\* The parts the file stems of the model are made of: per field, values that
\* are accepted and values that are not.
Technicians == {<< "r", "c" >>, << "1", "2" >>, << >>}

RecordNums == {<< "1", "6", "6", "9", "0", "5" >>, << "l", "e", "t", "t", "e", "r", "s" >>, << "2", "1", "4", "7", "4", "8", "3", "6", "4", "8" >>}

DirectionCodes ==
    {<< "n", "s" >>, << "s", "n" >>, << "e", "w" >>, << "w", "e" >>,
     << "n", "n" >>, << "s", "s" >>, << "e", "e" >>, << "w", "w" >>,
     << "n" >>, << "s" >>, << "e" >>, << "w" >>,
     << "e", "b" >>, << >>}

CounterIds == {<< "4", "0", "9", "7", "2" >>, << "l", "e", "t", "t", "e", "r", "s" >>}

SpeedLimits == {<< "3", "5" >>, << "n", "a" >>, << "a", "b", "c" >>}

join_dash(a, b) == a \o << "-" >> \o b

\* The file stems: five parts, and stems with one part less and one part more.
FourParts ==
    {join_dash(t, join_dash(r, join_dash(d, c))) :
        t \in Technicians, r \in RecordNums, d \in DirectionCodes, c \in CounterIds}

Stems ==
    {join_dash(f, l) : f \in FourParts, l \in SpeedLimits}
    \cup FourParts
    \cup {join_dash(f, << "3", "5", "-", "e", "x", "t", "r", "a" >>) : f \in FourParts}

Paths == {Path_with_stem(s) : s \in Stems} \cup {Path_without_stem, Path_stem_not_utf8}

PathIdle == path = Path_without_stem /\ from_path_res = NoMetadata

PathInit == path \in Paths /\ from_path_res = NoMetadata

\* One call of CountMetadata::from_path(path).
FromPathCall ==
    /\ from_path_res = NoMetadata
    /\ from_path_res' = from_path(path)
    /\ UNCHANGED path
    /\ UNCHANGED not_path_vars

\* The caller takes the result and passes another path.
FromPathAgain ==
    /\ from_path_res # NoMetadata
    /\ path' \in Paths
    /\ from_path_res' = NoMetadata
    /\ UNCHANGED not_path_vars

----------------------------------------------------------------------------
(* create_speed_and_class_count as a function of `counts` *)

\* No call has returned yet.
NoPass == [kind |-> "none", speed_map |-> EmptyMap, class_map |-> EmptyMap]

\* The tuple of the two maps the function returns.
Returned(speed_map, class_map) ==
    [kind |-> "returned", speed_map |-> speed_map, class_map |-> class_map]

\* Option::unwrap panicked in the loop: the call unwinds, both maps are
\* dropped and nothing is returned.
Panicked == [kind |-> "panicked", speed_map |-> EmptyMap, class_map |-> EmptyMap]

\* The for loop over what is left of `counts`, from the maps built so far.
RECURSIVE LoopOver(_, _, _, _)
LoopOver(md, rest, speed_map, class_map) ==
    IF rest = << >> THEN Returned(speed_map, class_map)
    ELSE LET it == ProcessCount(md, speed_map, class_map, Head(rest))
         IN  IF it.pc = "panicked" THEN Panicked
             ELSE LoopOver(md, Tail(rest), it.speed_map, it.class_map)

create_speed_and_class_count(md, cs) == LoopOver(md, cs, EmptyMap, EmptyMap)

\* The vehicles of the compared vectors: the last second of one 15-minute
\* interval and the first of the next, both channels, a speed of the first
\* range with a passenger car, a speed of the second range with an
\* unclassified vehicle and a rejected speed; and one vehicle of channel 3.
PassCounts ==
    {CountedVehicle(1, t, ch, cs[1], cs[2]) :
        t \in {Time(10, 14, 59, 0), Time(10, 15, 0, 0)},
        ch \in {1, 2},
        cs \in {<<"PassengerCars", Finite(0, 1000)>>,
                <<"UnclassifiedVehicle", Finite(0, 1600)>>,
                <<"PassengerCars", Finite(0, 1505)>>}}
    \cup {CountedVehicle(1, Time(10, 0, 0, 0), 3, "PassengerCars", Finite(0, 1000))}

\* The vectors of at most MaxPassCounts of them.
PassVectors == UNION {[1..n -> PassCounts] : n \in 0..MaxPassCounts}

\* v with the elements at i and i + 1 exchanged.
swap(v, i) ==
    [j \in 1..Len(v) |-> IF j = i THEN v[i + 1] ELSE IF j = i + 1 THEN v[i] ELSE v[j]]

PassIdle ==
    /\ pass_metadata = CountMetadata("", 0, "North", "None", 0, 0)
    /\ pass_counts = << >>
    /\ first_pass = NoPass
    /\ this_pass = NoPass
    /\ reordered = FALSE

PassInit ==
    /\ pass_metadata \in Metadatas
    /\ pass_counts \in PassVectors
    /\ first_pass = NoPass
    /\ this_pass = NoPass
    /\ reordered = FALSE

\* The first call, with `counts` as given.
PassFirst ==
    /\ first_pass = NoPass
    /\ first_pass' = create_speed_and_class_count(pass_metadata, pass_counts)
    /\ this_pass' = first_pass'
    /\ UNCHANGED <<pass_metadata, pass_counts, reordered>>
    /\ UNCHANGED not_pass_vars

\* Another call, with two neighbours of `counts` exchanged.
PassReordered ==
    /\ first_pass # NoPass
    /\ \E i \in 1..(Len(pass_counts) - 1) :
          /\ pass_counts[i] # pass_counts[i + 1]
          /\ pass_counts' = swap(pass_counts, i)
    /\ this_pass' = create_speed_and_class_count(pass_metadata, pass_counts')
    /\ reordered' = TRUE
    /\ UNCHANGED <<pass_metadata, first_pass>>
    /\ UNCHANGED not_pass_vars

----------------------------------------------------------------------------
(* db::insert_empty_metadata *)

\* pub const RECORD_CREATION_LIMIT: u32 = 50
RECORD_CREATION_LIMIT == 50

\* Result<Vec<u32>, CountError>
NoRecords == [tag |-> "none", msg |-> "", recordnums |-> << >>]

Ok_recordnums(v) == [tag |-> "Ok", msg |-> "", recordnums |-> v]

Err_DbError(msg) == [tag |-> "DbError", msg |-> msg, recordnums |-> << >>]

\* The oracle::Error a `?` converts and returns.
Err_from_oracle == [tag |-> "oracle::Error", msg |-> "", recordnums |-> << >>]

\* The second guard with the limit itself refused.
too_many_at_limit(n) == n >= RECORD_CREATION_LIMIT

\* number > RECORD_CREATION_LIMIT
too_many(n) == n > RECORD_CREATION_LIMIT

\* What RETURNING recordnum gives for the i-th row inserted by the call.
returned_recordnum(first, up, i) == IF up THEN first + (i - 1) ELSE first - (i - 1)

\* The numbers requested: none, every number up to the limit, and above it.
Numbers == 0..(RECORD_CREATION_LIMIT + MaxOverLimit)

InsIdle ==
    /\ number = 0
    /\ ins_pc = "idle"
    /\ recordnums = << >>
    /\ assigned = << >>
    /\ first_recordnum = 0
    /\ ascending = TRUE
    /\ commit_calls = 0
    /\ committed = 0
    /\ failed = "none"
    /\ ins_result = NoRecords

\* The call, on a connection with nothing pending.
InsInit ==
    /\ number \in Numbers
    /\ ins_pc = "call"
    /\ recordnums = << >>
    /\ assigned = << >>
    /\ first_recordnum = 166905
    /\ ascending \in BOOLEAN
    /\ commit_calls = 0
    /\ committed = 0
    /\ failed = "none"
    /\ ins_result = NoRecords

ins_inputs == <<number, first_recordnum, ascending>>

\* if number == 0 { return Err(..) }
RejectZero ==
    /\ ins_pc = "call"
    /\ number = 0
    /\ ins_result' = Err_DbError("Cannot create 0 records")
    /\ ins_pc' = "returned"
    /\ UNCHANGED <<ins_inputs, recordnums, assigned, commit_calls, committed, failed>>
    /\ UNCHANGED not_ins_vars

\* if number > RECORD_CREATION_LIMIT { return Err(..) }
RejectTooMany ==
    /\ ins_pc = "call"
    /\ number # 0
    /\ too_many(number)
    /\ ins_result' = Err_DbError("Too many new records requested: cannot created more than 50")
    /\ ins_pc' = "returned"
    /\ UNCHANGED <<ins_inputs, recordnums, assigned, commit_calls, committed, failed>>
    /\ UNCHANGED not_ins_vars

\* Both guards passed: let mut recordnums = vec![].
EnterLoop ==
    /\ ins_pc = "call"
    /\ number # 0
    /\ ~too_many(number)
    /\ recordnums' = << >>
    /\ ins_pc' = "loop"
    /\ UNCHANGED <<ins_inputs, assigned, commit_calls, committed, failed, ins_result>>
    /\ UNCHANGED not_ins_vars

\* One iteration: the insert is executed, its recordnum is read and pushed.
InsertRow ==
    /\ ins_pc = "loop"
    /\ Len(recordnums) < number
    /\ LET recordnum == returned_recordnum(first_recordnum, ascending, Len(assigned) + 1)
       IN  /\ assigned' = Append(assigned, recordnum)
           /\ recordnums' = Append(recordnums, recordnum)
    /\ UNCHANGED <<ins_inputs, ins_pc, commit_calls, committed, failed, ins_result>>
    /\ UNCHANGED not_ins_vars

\* conn.execute(..)? fails: no row is inserted, the error is returned.
ExecuteErr ==
    /\ ins_pc = "loop"
    /\ Len(recordnums) < number
    /\ failed' = "execute"
    /\ ins_result' = Err_from_oracle
    /\ ins_pc' = "returned"
    /\ UNCHANGED <<ins_inputs, recordnums, assigned, commit_calls, committed>>
    /\ UNCHANGED not_ins_vars

\* stmt.returned_values("recordnum")? fails after the row was inserted.
ReturnedValuesErr ==
    /\ ins_pc = "loop"
    /\ Len(recordnums) < number
    /\ assigned' = Append(assigned,
           returned_recordnum(first_recordnum, ascending, Len(assigned) + 1))
    /\ failed' = "returned_values"
    /\ ins_result' = Err_from_oracle
    /\ ins_pc' = "returned"
    /\ UNCHANGED <<ins_inputs, recordnums, commit_calls, committed>>
    /\ UNCHANGED not_ins_vars

\* The loop is over, conn.commit()? succeeds: Ok(recordnums).
CommitOk ==
    /\ ins_pc = "loop"
    /\ Len(recordnums) = number
    /\ commit_calls' = commit_calls + 1
    /\ committed' = committed + 1
    /\ ins_result' = Ok_recordnums(recordnums)
    /\ ins_pc' = "returned"
    /\ UNCHANGED <<ins_inputs, recordnums, assigned, failed>>
    /\ UNCHANGED not_ins_vars

\* The loop is over, conn.commit()? fails: the error is returned.
CommitErr ==
    /\ ins_pc = "loop"
    /\ Len(recordnums) = number
    /\ commit_calls' = commit_calls + 1
    /\ failed' = "commit"
    /\ ins_result' = Err_from_oracle
    /\ ins_pc' = "returned"
    /\ UNCHANGED <<ins_inputs, recordnums, assigned, committed>>
    /\ UNCHANGED not_ins_vars

----------------------------------------------------------------------------
(* Specifications *)

InitFromNum == FromNumInit /\ ClassIdle /\ SpeedIdle /\ TimeIdle /\ AggIdle /\ ChkIdle /\ PathIdle /\ PassIdle /\ InsIdle
NextFromNum == FromNumCall \/ FromNumAgain
SpecFromNum == InitFromNum /\ [][NextFromNum]_vars

InitClass == ClassInit /\ FromNumIdle /\ SpeedIdle /\ TimeIdle /\ AggIdle /\ ChkIdle /\ PathIdle /\ PassIdle /\ InsIdle
NextClass == ClassInsert
SpecClassCount == InitClass /\ [][NextClass]_vars

InitSpeed == SpeedInit /\ FromNumIdle /\ ClassIdle /\ TimeIdle /\ AggIdle /\ ChkIdle /\ PathIdle /\ PassIdle /\ InsIdle
NextSpeed == SpeedInsert \/ SpeedTestStep
SpecSpeedCount == InitSpeed /\ [][NextSpeed]_vars

InitTime == TimeInit /\ FromNumIdle /\ ClassIdle /\ SpeedIdle /\ AggIdle /\ ChkIdle /\ PathIdle /\ PassIdle /\ InsIdle
NextTime == TimeBinCall \/ TimeBinAgain
SpecTimeBin == InitTime /\ [][NextTime]_vars

Init == AggInit /\ FromNumIdle /\ ClassIdle /\ SpeedIdle /\ TimeIdle /\ ChkIdle /\ PathIdle /\ PassIdle /\ InsIdle
Next == AggIterate \/ AggReturn
Spec == Init /\ [][Next]_vars

InitCheck == ChkInit /\ FromNumIdle /\ ClassIdle /\ SpeedIdle /\ TimeIdle /\ AggIdle /\ PathIdle /\ PassIdle /\ InsIdle
NextCheck ==
    \/ TypeFound \/ TypeNull \/ TypeErr \/ QueryErr \/ RowErr
    \/ MixRow \/ MixRowPanic \/ MixEnd \/ MixLeave
    \/ DirRow \/ DirEnd \/ DirLeave
    \/ ZerosRow \/ ZerosEnd
    \/ BikeRow \/ BikeEnd
    \/ ReturnOk
SpecCheck == InitCheck /\ [][NextCheck]_vars

InitFromPath ==
    PathInit /\ FromNumIdle /\ ClassIdle /\ SpeedIdle /\ TimeIdle /\ AggIdle /\ ChkIdle
    /\ PassIdle /\ InsIdle
NextFromPath == FromPathCall \/ FromPathAgain
SpecFromPath == InitFromPath /\ [][NextFromPath]_vars

InitPasses == PassInit /\ FromNumIdle /\ ClassIdle /\ SpeedIdle /\ TimeIdle /\ AggIdle /\ ChkIdle /\ PathIdle /\ InsIdle
NextPasses == PassFirst \/ PassReordered
SpecPasses == InitPasses /\ [][NextPasses]_vars

InitInsert == InsInit /\ FromNumIdle /\ ClassIdle /\ SpeedIdle /\ TimeIdle /\ AggIdle /\ ChkIdle /\ PathIdle /\ PassIdle
NextInsert ==
    \/ RejectZero \/ RejectTooMany \/ EnterLoop
    \/ InsertRow \/ ExecuteErr \/ ReturnedValuesErr
    \/ CommitOk \/ CommitErr
SpecInsert == InitInsert /\ [][NextInsert]_vars

----------------------------------------------------------------------------
(* Properties of VehicleClass::from_num *)

\* C8: from_num succeeds for every code 0..14: codes 1..13 give the 13 FHWA
\* classes in order, each a class no other code in 1..13 gives, codes 0 and 14
\* both give UnclassifiedVehicle; every code above 14 fails with
\* BadVehicleClass carrying that code.
C8_FromNumMapping ==
    from_num_res # NoResult =>
        /\ num \in 1..13 =>
              /\ from_num_res = Ok_Class(VehicleClasses[num])
              /\ from_num_res.class # "UnclassifiedVehicle"
              /\ \A m \in 1..13 : m # num => from_num(m) # from_num_res
        /\ num \in {0, 14} => from_num_res = Ok_Class("UnclassifiedVehicle")
        /\ num > 14 => from_num_res = Err_BadVehicleClass(num)

\* Code 14 has been passed and UnclassifiedVehicle returned.
C8_Witness == num = 14 /\ from_num_res = Ok_Class("UnclassifiedVehicle")

----------------------------------------------------------------------------
(* Properties of VehicleClassCount::insert *)

\* Counter names c1..c13 in FHWA class order, as the claims name them.
NamedCounters == << "c1", "c2", "c3", "c4", "c5", "c6", "c7", "c8", "c9", "c10",
                    "c11", "c12", "c13" >>

AllCounters == {NamedCounters[i] : i \in 1..13} \cup {"c15", "total"}

\* The counters in `inc` grew by exactly one and every other counter kept its value.
OnlyIncremented(before, after, inc) ==
    /\ \A f \in inc : after[f] = before[f] + 1
    /\ \A f \in AllCounters \ inc : after[f] = before[f]
    /\ after.dvrpc_num = before.dvrpc_num
    /\ after.direction = before.direction

\* C1: inserting Unclassified increments c2, c15 and total by one each and
\* leaves c1 and c3..c13 unchanged; inserting the i-th named class increments
\* only counter c<i> and total by one and leaves c15 unchanged.
C1_InsertFrame ==
    class_arg # "none" =>
        /\ class_arg = "UnclassifiedVehicle" =>
              OnlyIncremented(class_before, class_count, {"c2", "c15", "total"})
        /\ \A i \in 1..13 : class_arg = VehicleClasses[i] =>
              OnlyIncremented(class_before, class_count, {NamedCounters[i], "total"})

\* An Unclassified vehicle has been inserted into a count that already held
\* a passenger car.
C1_Witness ==
    /\ class_arg = "UnclassifiedVehicle"
    /\ class_before.c2 = 1 /\ class_before.c15 = 0
    /\ class_count.c2 = 2 /\ class_count.c15 = 1 /\ class_count.total = 2

Sum13(c) ==
    c.c1 + c.c2 + c.c3 + c.c4 + c.c5 + c.c6 + c.c7 + c.c8 + c.c9 + c.c10
    + c.c11 + c.c12 + c.c13

\* C2: after any sequence of inserts into a fresh count, c1+...+c13 = total,
\* the sum of all fourteen counters is total + c15, and c15 <= c2.
C2_SumIsTotal ==
    /\ Sum13(class_count) = class_count.total
    /\ Sum13(class_count) + class_count.c15 = class_count.total + class_count.c15
    /\ class_count.c15 <= class_count.c2

\* Two unclassified vehicles and one bus have been inserted.
C2_Witness ==
    /\ class_count.c15 = 2 /\ class_count.c2 = 2 /\ class_count.c4 = 1
    /\ class_count.total = 3

----------------------------------------------------------------------------
(* Properties of SpeedRangeCount::insert *)

\* Range counter names s1..s14, as the claims name them.
RangeCounters == << "s1", "s2", "s3", "s4", "s5", "s6", "s7", "s8", "s9", "s10",
                    "s11", "s12", "s13", "s14" >>

AllSpeedCounters == {RangeCounters[i] : i \in 1..14} \cup {"total"}

\* The last insert returned Ok, and incremented range counter s<k> and total
\* by one and nothing else.
InsertedInRange(k) ==
    /\ speed_res = "Ok"
    /\ speed_count[RangeCounters[k]] = speed_before[RangeCounters[k]] + 1
    /\ speed_count.total = speed_before.total + 1
    /\ \A f \in AllSpeedCounters \ {RangeCounters[k], "total"} :
          speed_count[f] = speed_before[f]
    /\ speed_count.dvrpc_num = speed_before.dvrpc_num
    /\ speed_count.direction = speed_before.direction

\* The last insert failed with InvalidSpeed and left the whole count as it was.
RejectedUnchanged ==
    /\ speed_res = "InvalidSpeed"
    /\ speed_count = speed_before

\* A speed that is not negative: sign bit clear and a number (finite or +inf).
NonNegative(x) == x.sign = 0 /\ x.kind \in {"finite", "infinite"}

\* The range the specification gives a non-negative speed:
\* [0,15] -> 1, (15,20] -> 2, ..., (70,75] -> 13, (75,inf) -> 14.
SpecRange(x) ==
    IF x.kind = "infinite" \/ x.mag > 7500 THEN 14
    ELSE IF x.mag <= 1500 THEN 1
    ELSE CHOOSE k \in 2..13 : 1000 + 500 * (k - 1) < x.mag /\ x.mag <= 1000 + 500 * k

\* C3: insert succeeds for every non-negative speed and increments exactly
\* the counter of the range [0,15], (15,20], ..., (70,75], (75,inf) that holds
\* the speed, plus total; a speed such as 15.05 or 75.05 goes to the upper range.
C3_EveryNonNegativeSpeedAccepted ==
    (speed_arg # NoSpeed /\ NonNegative(speed_arg)) =>
        InsertedInRange(SpecRange(speed_arg))

\* C4: in tenths of a mph, each multiple of 5 from 15.0 to 75.0 goes to the
\* range it completes (15.0 -> s1, ..., 75.0 -> s13) and the next tenth to the
\* following range (15.1 -> s2, ..., 75.1 -> s14); s14 has no upper bound; and
\* the 30 speeds of the unit test give s1=3, s2..s13=2 each, s14=3, total=30.
C4_TenthsBoundaries ==
    /\ \A k \in 1..13 :
          /\ speed_arg = Finite(0, 1000 + 500 * k) => InsertedInRange(k)
          /\ speed_arg = Finite(0, 1000 + 500 * k + 10) => InsertedInRange(k + 1)
    /\ (speed_arg.kind = "finite" /\ speed_arg.sign = 0 /\ speed_arg.mag >= 7510)
          => InsertedInRange(14)
    /\ test_i = Len(TestSpeeds) =>
          /\ speed_count.s1 = 3 /\ speed_count.s14 = 3
          /\ \A k \in 2..13 : speed_count[RangeCounters[k]] = 2
          /\ speed_count.total = 30
          /\ speed_oks = 30

\* The unit test has inserted its last speed, 120.0, into s14.
C4_Witness ==
    /\ test_i = Len(TestSpeeds)
    /\ speed_arg = Finite(0, 12000)
    /\ speed_count.s14 = speed_before.s14 + 1

\* C5: insert fails with InvalidSpeed for every speed whose sign is negative,
\* -0.1 and negative zero included, and then leaves all 14 range counters and
\* total unchanged.
C5_NegativeRejected ==
    (speed_arg # NoSpeed /\ speed_arg.sign = 1) => RejectedUnchanged

\* Negative zero has been passed to a count that already holds two speeds.
C5_Witness ==
    /\ speed_arg = Finite(1, 0)
    /\ speed_res = "InvalidSpeed"
    /\ speed_count.total = 2
    /\ speed_count = speed_before

----------------------------------------------------------------------------
(* Properties of time_bin *)

\* C6: for every valid time t, time_bin(t) succeeds with the hour of t, a
\* minute in {0,15,30,45} that is at most t.minute and less than 15 below it,
\* and second 0.
C6_TimeBinFloors ==
    bin_a # NoBin =>
        /\ bin_a.ok
        /\ bin_a.time.hour = time_a.hour
        /\ bin_a.time.minute \in {0, 15, 30, 45}
        /\ bin_a.time.minute <= time_a.minute
        /\ time_a.minute - bin_a.time.minute < 15
        /\ bin_a.time.second = 0

\* 10:29:59 has been binned to minute 15 of hour 10.
C6_Witness ==
    /\ time_a.hour = 10 /\ time_a.minute = 29 /\ time_a.second = 59
    /\ bin_a.ok /\ bin_a.time.hour = 10 /\ bin_a.time.minute = 15
    /\ bin_a.time.second = 0

\* Two times lie in the same 15-minute interval of the day.
SameInterval(t, u) == t.hour = u.hour /\ t.minute \div 15 = u.minute \div 15

\* C7: time_bin returns the start of the containing 15-minute interval: any
\* two times in the same interval, whatever their seconds and sub-second
\* parts, bin to the same value and, with equal date and channel, give the
\* same BinnedCountKey.
C7_SameIntervalSameBin ==
    (bin_a # NoBin /\ bin_b # NoBin /\ SameInterval(time_a, time_b)) =>
        /\ bin_a = bin_b
        /\ BinnedCountKey(1, bin_a.time, 1) = BinnedCountKey(1, bin_b.time, 1)

----------------------------------------------------------------------------
(* Properties of create_speed_and_class_count *)

\* The last iteration left both maps exactly as they were.
MapsUnchanged ==
    /\ fifteen_min_speed_range_count = speed_map_before
    /\ fifteen_min_vehicle_class_count = class_map_before

\* C9: a vehicle on channel 2 while the metadata has no second direction is
\* skipped without aborting the pass: the remaining vehicles are still
\* processed and both maps are returned.
C9_Channel2WithoutDirection2Skipped ==
    (count # NoCount /\ count.channel = 2 /\ metadata.directions.direction2 = "None") =>
        /\ agg_pc \in {"loop", "returned"}
        /\ MapsUnchanged

\* C10: a vehicle whose channel is neither 1 nor 2 is skipped: neither map
\* gains a key or changes a counter, and the loop goes on to the next vehicle.
C10_OtherChannelSkipped ==
    (count # NoCount /\ count.channel \notin {1, 2}) =>
        /\ outcome = "channel_error"
        /\ MapsUnchanged
        /\ DOMAIN fifteen_min_speed_range_count = DOMAIN speed_map_before
        /\ DOMAIN fifteen_min_vehicle_class_count = DOMAIN class_map_before
        /\ agg_pc \in {"loop", "returned"}

\* A vehicle on channel 3 came second, after one that was inserted, and the
\* loop is ready for the next vehicle.
C10_Witness ==
    /\ count.channel = 3 /\ count.speed = Finite(0, 1000)
    /\ n_counts = 2
    /\ outcome = "channel_error"
    /\ agg_pc = "loop"
    /\ DOMAIN fifteen_min_vehicle_class_count # {}
    /\ MapsUnchanged

\* The key the last vehicle is counted under.
CountKey == BinnedCountKey(count.date, time_bin(count.time).time, count.channel)

\* C11: a vehicle whose speed is rejected is skipped entirely: it creates no
\* bucket and changes no counter in either map, and the batch continues.
C11_RejectedSpeedSkipped ==
    outcome = "speed_error" =>
        /\ MapsUnchanged
        /\ agg_pc \in {"loop", "returned"}

\* The total under key k in a map, 0 when the map has no such key.
TotalAt(map, k) == IF k \in DOMAIN map THEN map[k].total ELSE 0

\* After the last iteration `map` holds the keys it held before and CountKey,
\* the total under CountKey is one more than before (from zero if the key was
\* absent) and every other bucket is as it was.
AppliedToOneBucket(before, map) ==
    /\ DOMAIN map = DOMAIN before \cup {CountKey}
    /\ map[CountKey].total = TotalAt(before, CountKey) + 1
    /\ \A k \in DOMAIN before : k # CountKey => map[k] = before[k]

\* C12: a vehicle with a resolvable channel and an accepted speed is applied
\* to exactly one bucket, the one keyed by (date, time_bin(time), channel):
\* there the SpeedRangeCount and the VehicleClassCount each have total
\* increased by one, created from zero if absent, and no other key of either
\* map is created or modified.
C12_AppliedToOneBucket ==
    outcome = "inserted" =>
        /\ AppliedToOneBucket(speed_map_before, fifteen_min_speed_range_count)
        /\ AppliedToOneBucket(class_map_before, fifteen_min_vehicle_class_count)

\* 10:14:59 on channel 1 has been added to the bucket 10:00:00 opened by an
\* earlier vehicle, while the bucket of channel 2 stayed as it was.
C12_Witness ==
    /\ outcome = "inserted"
    /\ count.time = Time(10, 14, 59, 0) /\ count.channel = 1
    /\ CountKey = BinnedCountKey(1, Time(10, 0, 0, 0), 1)
    /\ TotalAt(class_map_before, CountKey) = 1
    /\ fifteen_min_vehicle_class_count[CountKey].total = 2
    /\ fifteen_min_speed_range_count[CountKey].total = 2
    /\ BinnedCountKey(1, Time(10, 0, 0, 0), 2) \in DOMAIN class_map_before

\* The sum of total over all buckets of a map.
RECURSIVE SumTotalsOver(_, _)
SumTotalsOver(map, keys) ==
    IF keys = {} THEN 0
    ELSE LET k == CHOOSE x \in keys : TRUE
         IN  map[k].total + SumTotalsOver(map, keys \ {k})

SumTotals(map) == SumTotalsOver(map, DOMAIN map)

\* C13: no partial-period filtering: the totals of all buckets of the class
\* map add up to the number of vehicles that were not skipped, and likewise
\* for the speed map, also in the maps returned; a bucket opened by the last
\* vehicle holds total 1.
C13_NothingFiltered ==
    /\ SumTotals(fifteen_min_vehicle_class_count) = n_inserted
    /\ SumTotals(fifteen_min_speed_range_count) = n_inserted
    /\ (outcome = "inserted" /\ TotalAt(class_map_before, CountKey) = 0) =>
          fifteen_min_vehicle_class_count[CountKey].total = 1
    /\ (outcome = "inserted" /\ TotalAt(speed_map_before, CountKey) = 0) =>
          fifteen_min_speed_range_count[CountKey].total = 1

\* The maps have been returned with two vehicles in one bucket and a single
\* vehicle in another, after one vehicle was skipped.
C13_Witness ==
    /\ agg_pc = "returned"
    /\ n_counts = 3 /\ n_inserted = 2
    /\ outcome = "inserted"
    /\ TotalAt(class_map_before, CountKey) = 0
    /\ fifteen_min_vehicle_class_count[CountKey].total = 1
    /\ Cardinality(DOMAIN fifteen_min_vehicle_class_count) = 2

\* The direction the metadata gives a channel.
ChannelDirection(channel) ==
    IF channel = 1 THEN metadata.directions.direction1
    ELSE metadata.directions.direction2

\* Every bucket of `map` carries the count's dvrpc_num and its channel's direction.
Seeded(map) ==
    \A k \in DOMAIN map :
        /\ k.channel \in {1, 2}
        /\ map[k].dvrpc_num = metadata.dvrpc_num
        /\ map[k].direction = ChannelDirection(k.channel)
        /\ map[k].direction \in Directions

\* C14: every bucket of either map carries the metadata's dvrpc_num, and
\* direction1 when its key's channel is 1, direction2 when it is 2, whatever
\* the order of the vehicles.
C14_BucketsSeeded ==
    /\ Seeded(fifteen_min_speed_range_count)
    /\ Seeded(fifteen_min_vehicle_class_count)

\* A bucket of channel 2 was opened first and one of channel 1 after it.
C14_Witness ==
    /\ n_counts = 2 /\ count.channel = 1 /\ outcome = "inserted"
    /\ \E k \in DOMAIN class_map_before :
          k.channel = 2 /\ fifteen_min_vehicle_class_count[k].direction = "West"
    /\ fifteen_min_vehicle_class_count[CountKey].direction = "East"
    /\ fifteen_min_speed_range_count[CountKey].direction = "East"

----------------------------------------------------------------------------
(* Properties of check_data::check: the consecutive-zero rule *)

\* The consecutive-zero rule has just run its loop body on a row.
RowScanned == chk_pc = "zeros" /\ n_rows > 0

\* Number of slots a row has.
NSlots == Len(Columns)

\* How many of the warnings of the last row name `slot`.
Named(slot) ==
    Cardinality({i \in 1..Len(emitted) : emitted[i] = Warning("zeros", slot)})

\* The slot visited p-th holds an observed zero / a NULL.
ZeroAt(p) == hourly[inspected[p]] = Some(0)

NullAt(p) == hourly[inspected[p]] = None

\* The position of a slot in the day, am4 being 1 and pm10 being 19.
HourOfDay(slot) == CHOOSE i \in 1..Len(Columns) : Columns[i] = slot

\* C15: the 19 slots of a row are inspected in chronological order am4, am5,
\* ..., am11, pm12, pm1, ..., pm10, so every slot named in a warning is the
\* hour right after another hour with a zero total.
C15_ChronologicalInspection ==
    RowScanned =>
        /\ inspected = Columns
        /\ \A i \in 1..Len(emitted) :
              /\ HourOfDay(emitted[i].slot) > 1
              /\ hourly[Columns[HourOfDay(emitted[i].slot) - 1]] = Some(0)

MaximalRun(a, b) ==
    /\ a <= b
    /\ \A p \in a..b : ZeroAt(p)
    /\ a = 1 \/ ~ZeroAt(a - 1)
    /\ b = NSlots \/ ~ZeroAt(b + 1)

\* C17: within one row every maximal run of k zero slots, in inspection order,
\* gives k-1 warnings: none for its first slot and exactly one naming each
\* later slot; a slot that is not zero is never named and leaves the counter
\* at 0; the first slot visited is never named, whatever the row before left
\* in the counter.
C17_RunsOfZeros ==
    RowScanned =>
        /\ \A i \in 1..Len(emitted) :
              emitted[i].rule = "zeros" /\ emitted[i].slot \in Slots
        /\ \A a \in 1..NSlots, b \in 1..NSlots :
              MaximalRun(a, b) =>
                  /\ \A p \in a..b : Named(inspected[p]) = (IF p > a THEN 1 ELSE 0)
                  /\ b = NSlots => consecutive_zeros = b - a + 1
        /\ \A p \in 1..NSlots : ~ZeroAt(p) => Named(inspected[p]) = 0
        /\ ~ZeroAt(NSlots) => consecutive_zeros = 0

\* The row before ended in a zero; this row starts with a run of three zeros
\* and its warnings name the second and the third of them, nothing else.
C17_Witness ==
    /\ RowScanned
    /\ carried >= 1
    /\ ZeroAt(1) /\ ZeroAt(2) /\ ZeroAt(3) /\ ~ZeroAt(4)
    /\ emitted = << Warning("zeros", inspected[2]), Warning("zeros", inspected[3]) >>

----------------------------------------------------------------------------
(* Properties of check_data::check: the directional-balance rule *)

\* C18: the total attributed to each direction is the sum of totalcount over
\* the tc_volcount rows of that direction, each row counted once.
C18_DirectionTotalIsRowSum ==
    chk_pc \in {"dir", "dir_end"} =>
        /\ DOMAIN count_by_dir = DOMAIN rows_by_dir
        /\ \A d \in DOMAIN count_by_dir : count_by_dir[d] = rows_by_dir[d]

\* More than one direction is present and the smallest of the accumulated
\* totals is strictly below 0.40 of the smallest plus the largest.
MinorityBelowBand ==
    /\ Cardinality(DOMAIN count_by_dir) > 1
    /\ \E lo \in DOMAIN count_by_dir, hi \in DOMAIN count_by_dir :
          /\ \A d \in DOMAIN count_by_dir :
                count_by_dir[lo] <= count_by_dir[d] /\ count_by_dir[d] <= count_by_dir[hi]
          /\ count_by_dir[lo] * 100 < 40 * (count_by_dir[lo] + count_by_dir[hi])

\* C19: for the totals accumulated, the directional-balance rule warns iff more
\* than one direction is present and min/(min+max) is strictly below 0.40; it
\* warns at most once, and no other step emits this warning.
C19_DirectionWarning ==
    /\ chk_pc = "dir_end" =>
          /\ MinorityBelowBand => emitted = << Warning("direction", "") >>
          /\ ~MinorityBelowBand => emitted = << >>
    /\ chk_pc # "dir_end" =>
          \A i \in 1..Len(emitted) : emitted[i].rule # "direction"

\* Two directions with totals of exactly 40 and 60: no warning.
C19_Witness ==
    /\ chk_pc = "dir_end"
    /\ \E a \in DOMAIN count_by_dir, b \in DOMAIN count_by_dir :
          /\ DOMAIN count_by_dir = {a, b}
          /\ count_by_dir[a] = 40 /\ count_by_dir[b] = 60
    /\ emitted = << >>

----------------------------------------------------------------------------
(* Properties of check_data::check: the class-mix rule *)

\* How many of the warnings of the last step come from `rule`.
FromRule(rule) == Cardinality({i \in 1..Len(emitted) : emitted[i].rule = rule})

\* C20: with c2, c15 and total summed over all rows, the class-mix rule emits
\* the Class-2 warning iff c2_sum/total_sum < 75% and the Unclassified warning
\* iff c15_sum/total_sum > 10%, each on its own and at most once; shares of
\* exactly 75% and exactly 10% do not warn.
C20_ClassMixWarnings ==
    chk_pc = "mix_end" =>
        LET c2_sum == SumField(counts, "c2")
            c15_sum == SumField(counts, "c15")
            total_sum == SumField(counts, "total")
        IN  /\ FromRule("class2") = (IF c2_sum * 100 < 75 * total_sum THEN 1 ELSE 0)
            /\ FromRule("unclassified") = (IF c15_sum * 100 > 10 * total_sum THEN 1 ELSE 0)
            /\ Len(emitted) = FromRule("class2") + FromRule("unclassified")

\* Two rows whose sums give shares of exactly 75% and exactly 10%: no warning.
C20_Witness ==
    /\ chk_pc = "mix_end"
    /\ Len(counts) = 2
    /\ SumField(counts, "total") > 0
    /\ SumField(counts, "c2") * 100 = 75 * SumField(counts, "total")
    /\ SumField(counts, "c15") * 100 = 10 * SumField(counts, "total")
    /\ emitted = << >>

----------------------------------------------------------------------------
(* Properties of check_data::check: the bicycle rule *)

\* What C21 says of every state: a bicycle warning is emitted only by a total
\* above 20, at most once, and ends the scan; while the scan goes on every
\* total read was 20 or less and nothing was emitted; when check is past the
\* scan of a Bicycle count, it has warned iff the last total read is above 20.
BicycleScan ==
    /\ FromRule("bicycle") <= 1
    /\ FromRule("bicycle") = 1 =>
          /\ contains_Bicycle(count_type)
          /\ total > 20
          /\ chk_pc \in {"return", "returned"}
    /\ (chk_pc = "bike" /\ n_rows > 0) => (total <= 20 /\ emitted = << >>)
    /\ (chk_pc \in {"return", "returned"} /\ contains_Bicycle(count_type)
        /\ chk_result.tag \in {"none", "Ok"}) =>
          (FromRule("bicycle") = 1 <=> total > 20)

\* What C21 says of every step: once the warning is emitted no further total
\* is read and no further warning is emitted.
BicycleScanStops ==
    FromRule("bicycle") = 1 => UNCHANGED <<total, n_rows, emitted>>

\* C21: for a Bicycle count exactly one warning is emitted if a 15-minute total
\* exceeds 20 and none otherwise (20 does not warn); the scan stops at the first
\* such total, so later totals are not read and add no second warning.
C21_BicycleWarnsOnce == []BicycleScan /\ [][BicycleScanStops]_vars

\* check has returned Ok after the second total read was the first above 20.
C21_Witness ==
    /\ chk_pc = "returned" /\ chk_result = Ok_unit
    /\ n_rows = 2 /\ total = 21
    /\ emitted = << Warning("bicycle", "") >>

----------------------------------------------------------------------------
(* Properties of check_data::check: errors and rule applicability *)

\* C22: when the type of the count is null, check fails with an error before
\* any rule runs: no rule query is issued and no warning is emitted.
C22_NullTypeIsHardError ==
    lookup = "None" =>
        /\ chk_pc = "returned"
        /\ chk_result.tag \notin {"none", "Ok"}
        /\ queried = {}
        /\ n_rows = 0
        /\ emitted = << >>

\* check has returned the error for a null type.
C22_Witness ==
    /\ lookup = "None"
    /\ chk_pc = "returned"
    /\ chk_result = Err_DataCheckError("unable to identify type of count")
    /\ queried = {}

\* C23: a failed query, the type lookup included, is returned to the caller as
\* that failure itself, never as a data-check error: the lookup's failure gives
\* the collaborator's error, and a data-check error is only ever returned for
\* a null type.
C23_QueryFailurePropagated ==
    /\ lookup = "Err" => (chk_pc = "returned" /\ chk_result = Err_oracle)
    /\ chk_result.tag = "DataCheckError" => lookup = "None"

\* The warnings each rule emits.
RuleOf(w) ==
    CASE w.rule \in {"class2", "unclassified"} -> "mix"
      [] w.rule = "direction" -> "dir"
      [] w.rule = "zeros" -> "zeros"
      [] w.rule = "bicycle" -> "bike"

C25_NoRowsNoWarning ==
    /\ (chk_pc = "mix_end" /\ (counts = << >> \/ SumField(counts, "total") = 0)) =>
          emitted = << >>
    /\ (chk_pc = "dir_end" /\ n_rows = 0) => emitted = << >>
    /\ (chk_pc \in {"return", "returned"} /\ "bike" \in queried /\ n_rows = 0) =>
          emitted = << >>

----------------------------------------------------------------------------
(* Properties of CountMetadata::from_path *)

\* The 12 direction codes from_path accepts.
AcceptedCodes ==
    {<< "n", "s" >>, << "s", "n" >>, << "e", "w" >>, << "w", "e" >>, << "n", "n" >>,
     << "s", "s" >>, << "e", "e" >>, << "w", "w" >>, << "n" >>, << "s" >>, << "e" >>,
     << "w" >>}

\* The part is an integer from_path can read.
IsInteger(part) == parse_i32(part).ok

\* The parts of the file stem of the last call.
StemParts == split_dash(path.chars)

\* The problem from_path has reported, "" if none.
Problem ==
    IF from_path_res.tag = "InvalidFileName" THEN from_path_res.problem ELSE ""

\* C26: from_path checks the dash-separated stem in a fixed order and reports
\* the first problem: fewer than 5 parts, more than 5 parts, a technician that
\* is an integer, a record number that is not, directions not among the 12
\* codes, a counter id that is not an integer, a speed limit that is neither
\* "na" nor an integer; bad directions with a bad counter id report the
\* directions; five valid parts return the metadata, "na" giving None.
C26_FromPathOrder ==
    (from_path_res # NoMetadata /\ path.stem = "utf8") =>
        LET parts == StemParts
            five == Len(parts) = 5
            tech_ok == five /\ ~IsInteger(parts[1])
            num_ok == tech_ok /\ IsInteger(parts[2])
            dirs_ok == num_ok /\ parts[3] \in AcceptedCodes
            id_ok == dirs_ok /\ IsInteger(parts[4])
            limit_ok == id_ok /\ (parts[5] = << "n", "a" >> \/ IsInteger(parts[5]))
        IN  /\ Problem = "TooFewParts" <=> Len(parts) < 5
            /\ Problem = "TooManyParts" <=> Len(parts) > 5
            /\ Problem = "InvalidTech" <=> (five /\ ~tech_ok)
            /\ Problem = "InvalidRecordNum" <=> (tech_ok /\ ~num_ok)
            /\ Problem = "InvalidDirections" <=> (num_ok /\ ~dirs_ok)
            /\ Problem = "InvalidCounterID" <=> (dirs_ok /\ ~id_ok)
            /\ Problem = "InvalidSpeedLimit" <=> (id_ok /\ ~limit_ok)
            /\ from_path_res.tag = "Ok" <=> limit_ok
            /\ from_path_res.tag \in {"Ok", "InvalidFileName"}
            /\ from_path_res.tag = "Ok" =>
                  /\ from_path_res.metadata.technician = parts[1]
                  /\ from_path_res.metadata.dvrpc_num = parse_i32(parts[2]).v
                  /\ from_path_res.metadata.counter_id = parse_i32(parts[4]).v
                  /\ from_path_res.metadata.directions.direction1 \in Directions
                  /\ parts[5] = << "n", "a" >> <=> from_path_res.metadata.speed_limit = None
                  /\ parts[5] # << "n", "a" >> =>
                        from_path_res.metadata.speed_limit = Some(parse_i32(parts[5]).v)

\* from_path has reported InvalidDirections for a stem whose directions and
\* counter id are both bad.
C26_Witness ==
    /\ path.stem = "utf8"
    /\ Len(StemParts) = 5
    /\ StemParts[3] = << "e", "b" >>
    /\ StemParts[4] = << "l", "e", "t", "t", "e", "r", "s" >>
    /\ from_path_res = Err_InvalidFileName("InvalidDirections")


\* C27: after any pass of create_speed_and_class_count the speed map and the
\* class map have the same set of keys, under every key the two totals are
\* equal and the two directions are the same, and neither map holds a bucket
\* whose total is 0.
C27_MapsInParity ==
    agg_pc = "returned" =>
        /\ DOMAIN fifteen_min_speed_range_count = DOMAIN fifteen_min_vehicle_class_count
        /\ \A k \in DOMAIN fifteen_min_speed_range_count \cap
                    DOMAIN fifteen_min_vehicle_class_count :
              /\ fifteen_min_speed_range_count[k].total =
                     fifteen_min_vehicle_class_count[k].total
              /\ fifteen_min_speed_range_count[k].direction =
                     fifteen_min_vehicle_class_count[k].direction
        /\ \A k \in DOMAIN fifteen_min_speed_range_count :
              fifteen_min_speed_range_count[k].total # 0
        /\ \A k \in DOMAIN fifteen_min_vehicle_class_count :
              fifteen_min_vehicle_class_count[k].total # 0


Sum14(s) ==
    s.s1 + s.s2 + s.s3 + s.s4 + s.s5 + s.s6 + s.s7 + s.s8 + s.s9 + s.s10
    + s.s11 + s.s12 + s.s13 + s.s14

\* C28: after any sequence of SpeedRangeCount::insert calls on a fresh count,
\* successful or failed, s1+...+s14 equals total, and total equals the number
\* of calls that returned Ok.
C28_SpeedSumIsTotal ==
    /\ Sum14(speed_count) = speed_count.total
    /\ speed_count.total = speed_oks

\* Three calls have been made, one of them rejected, and the two accepted
\* speeds fell into different ranges.
C28_Witness ==
    /\ speed_calls = 3
    /\ speed_oks = 2
    /\ speed_count.total = 2
    /\ speed_count.s1 = 1
    /\ speed_count.s14 = 1


----------------------------------------------------------------------------
(* Properties of create_speed_and_class_count as a function *)

\* C29: for a fixed metadata, every order of the same multiset of
\* observations yields the same speed map and the same class map as the
\* first order did.
C29_OrderIndependent ==
    first_pass # NoPass => this_pass = first_pass

\* A reordered vector has been passed whose vehicles of one bucket have
\* speeds of two ranges, and another of whose vehicles was rejected.
C29_Witness ==
    /\ reordered
    /\ this_pass.kind = "returned"
    /\ \E k \in DOMAIN this_pass.speed_map :
          /\ this_pass.speed_map[k].s1 = 1
          /\ this_pass.speed_map[k].s2 = 1
    /\ DOMAIN this_pass.speed_map # DOMAIN this_pass.class_map


----------------------------------------------------------------------------
(* Properties of db::insert_empty_metadata *)

\* A request for 0 records or for more than the limit has been answered with
\* an error and no insert was executed.
RejectedBeforeAnyInsert ==
    (number = 0 \/ number > RECORD_CREATION_LIMIT) =>
        /\ ins_result.tag = "DbError"
        /\ assigned = << >>
        /\ commit_calls = 0

\* `number` inserts were executed, one commit was made after them and their
\* recordnums were returned in the order of the inserts.
AllCreated ==
    /\ Len(assigned) = number
    /\ commit_calls = 1
    /\ committed = 1
    /\ ins_result = Ok_recordnums(assigned)
    /\ Len(ins_result.recordnums) = number

\* An insert failed: its error has been returned and no commit was made.
InsertFailureNotCommitted ==
    failed \in {"execute", "returned_values"} =>
        /\ ins_result = Err_from_oracle
        /\ commit_calls = 0

\* C30, as stated: 0 and more than RECORD_CREATION_LIMIT are rejected before
\* any insert; for 1 <= number <= 50 with all inserts succeeding, exactly
\* `number` inserts are executed, one commit follows the last one and
\* `number` record numbers are returned in insertion order; if an insert
\* fails, the error is returned and nothing is committed.
C30_InsertEmptyMetadata ==
    ins_pc = "returned" =>
        /\ RejectedBeforeAnyInsert
        /\ (number \in 1..RECORD_CREATION_LIMIT
                /\ failed \notin {"execute", "returned_values"}) => AllCreated
        /\ InsertFailureNotCommitted

\* C30, amended: as stated, with the record numbers returned only if the
\* commit succeeds too; if the commit fails after `number` inserts, its error
\* is returned instead of the record numbers and nothing has been committed.
C30_InsertEmptyMetadataCommitted ==
    ins_pc = "returned" =>
        /\ RejectedBeforeAnyInsert
        /\ (number \in 1..RECORD_CREATION_LIMIT /\ failed = "none") => AllCreated
        /\ InsertFailureNotCommitted
        /\ failed = "commit" =>
              /\ Len(assigned) = number
              /\ ins_result = Err_from_oracle
              /\ commit_calls = 1
              /\ committed = 0

\* RECORD_CREATION_LIMIT records were requested where tc_header assigns
\* falling recordnums, and all of them have been created and returned.
C30_Witness ==
    /\ ins_pc = "returned"
    /\ number = RECORD_CREATION_LIMIT
    /\ ~ascending
    /\ ins_result.tag = "Ok"
    /\ Len(ins_result.recordnums) = RECORD_CREATION_LIMIT
    /\ ins_result.recordnums[2] < ins_result.recordnums[1]
    /\ committed = 1

====
